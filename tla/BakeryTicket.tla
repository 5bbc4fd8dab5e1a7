---------------------------- MODULE BakeryTicket ----------------------------
(***************************************************************************)
(* What the two implementations of ARM Trusted Firmware's bakery lock have *)
(* in common: the CPUs, the order in which a contender visits the others,  *)
(* and the ticket and priority encodings of include/lib/bakery_lock.h.     *)
(***************************************************************************)
EXTENDS Naturals

CONSTANTS
  N,            \* BAKERY_LOCK_MAX_CPUS, i.e. PLATFORM_CORE_COUNT
  TicketLimit   \* tickets that fit into lock_data, 2^15 in the code

(* PRIORITY keeps the CPU position in its low 8 bits.                      *)
ASSUME NAssumption == N \in 1..256

CPU == 0..(N-1)

(* lock_data is 16 bits wide: bit 0 is `choosing', bits 1-15 the ticket.   *)
ASSUME TicketLimitAssumption == TicketLimit \in Nat \ {0, 1}

(* make_bakery_data() keeps what fits of a ticket.                         *)
Field(t) == t % TicketLimit

(* PRIORITY(t, pos): (t << 8) | pos, where pos < 256.                      *)
Priority(t, pos) == 256 * t + pos

(* The visiting order of "for (they = 0; they < MAX; they++) if (me ==     *)
(* they) continue;".  The loop is over when the index is N.                *)
First(me) == IF me = 0 THEN 1 ELSE 0

Following(me, they) == IF they + 1 = me THEN they + 2 ELSE they + 1
=============================================================================
