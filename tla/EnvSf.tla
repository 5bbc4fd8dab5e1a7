------------------------------- MODULE EnvSf --------------------------------
(***************************************************************************)
(* The U-Boot environment in SPI flash (env/sf.c), as env_save, env_load   *)
(* (env/env.c) and the import and export of env/common.c use it.           *)
(*                                                                         *)
(* The environment has one copy, or two when CONFIG_ENV_OFFSET_REDUND is   *)
(* set.  A save erases a copy, writes it, and with two copies marks the    *)
(* other one obsolete.  Power may be lost at any moment, in the middle of  *)
(* an erase or a write, and an operation may fail having done its work, a  *)
(* part of it, or nothing.  An erased or partly written copy fails its CRC.*)
(***************************************************************************)
EXTENDS Integers

CONSTANTS
  Value,        \* contents of the environment other than the default one
  Faults        \* the operations that may fail

ASSUME FaultAssumption == Faults \subseteq {"setup", "load", "export", "malloc", "read", "erase", "write"}
ASSUME ValueAssumption == "default" \notin Value /\ "bad" \notin Value

Default == "default"            \* default_environment
Bad == "bad"                    \* what fails the CRC
Contents == Value \cup {Default}

Copy == {1, 2}          \* at CONFIG_ENV_OFFSET and CONFIG_ENV_OFFSET_REDUND

(* A byte of flags that is erased, and the two that are written.           *)
Erased == 255
ACTIVE_FLAG == 1
OBSOLETE_FLAG == 0

VARIABLES
  build,        \* the options the code is built with; never changes
  data,         \* contents of each copy
  flags,        \* env_t.flags of each copy
  env,          \* env_htab
  envValid,     \* gd->env_valid: 1 is ENV_VALID, 2 is ENV_REDUND
  pc,           \* where env_save is
  stored,       \* history: what was loaded, or saved with success, last
  maybe         \* history: what saves that did not succeed may have left

flash == <<data, flags>>
history == <<stored, maybe>>
vars == <<build, flash, env, envValid, pc, history>>

Saving == {"setup", "backup", "export", "erase", "write", "obsolete"}

Builds == [redundant : BOOLEAN, embedded : BOOLEAN]

Redundant == build.redundant    \* CONFIG_ENV_OFFSET_REDUND
Embedded == build.embedded      \* CONFIG_ENV_SECT_SIZE > CONFIG_ENV_SIZE

TypeOK ==
  /\ build \in Builds
  /\ data \in [Copy -> Contents \cup {Bad}]
  /\ flags \in [Copy -> {Erased, ACTIVE_FLAG, OBSOLETE_FLAG}]
  /\ env \in Contents
  /\ envValid \in Copy
  /\ pc \in {"boot", "prompt"} \cup Saving
  /\ stored \in Contents
  /\ maybe \subseteq Contents

(* A blank flash.                                                          *)
Init ==
  /\ build \in Builds
  /\ data = [c \in Copy |-> Bad]
  /\ flags = [c \in Copy |-> Erased]
  /\ env = Default
  /\ envValid = 1
  /\ pc = "boot"
  /\ stored = Default
  /\ maybe = {}

-----------------------------------------------------------------------------
(* env_load *)

(* Both CRCs are right: "check serial".                                    *)
Newer ==
  IF flags[1] = 255 /\ flags[2] = 0 THEN 2
  ELSE IF flags[2] = 255 /\ flags[1] = 0 THEN 1
  ELSE IF flags[2] > flags[1] THEN 2 ELSE 1

(* Faulty variant: believes the flags of a copy whose CRC is wrong.        *)
SelectedByFlags == Newer

(* The copy that env_import_redund() or env_import() takes, if it can read *)
(* what it wants, and 0 if no CRC is right.                                *)
Selected ==
  IF ~ Redundant THEN IF data[1] = Bad THEN 0 ELSE 1
  ELSE IF data[1] = Bad /\ data[2] = Bad THEN 0
  ELSE IF data[2] = Bad THEN 1
  ELSE IF data[1] = Bad THEN 2
  ELSE Newer

Loaded(c) == IF c = 0 \/ data[c] = Bad THEN Default ELSE data[c]

(* env_init() leaves ENV_VALID, which a load that finds nothing keeps.     *)
LoadGood ==
  /\ pc = "boot"
  /\ env' = Loaded(Selected)
  /\ envValid' = IF Selected = 0 THEN 1 ELSE Selected
  /\ stored' = env'
  /\ maybe' = {}
  /\ pc' = "prompt"
  /\ UNCHANGED <<build, flash>>

(* After a load that could not read what it wanted a save may go to either *)
(* copy: what each of them holds may be found once it has begun.           *)
Unread ==
  /\ maybe' = maybe \cup {Default} \cup {Loaded(c) : c \in Copy}
  /\ UNCHANGED stored

(* The flash cannot be probed, no copy can be read, or what was read       *)
(* cannot be imported.                                                     *)
LoadNone ==
  /\ "load" \in Faults
  /\ pc = "boot"
  /\ env' = Default
  /\ envValid' \in {1} \cup (IF Redundant THEN {Selected} \ {0} ELSE {})
  /\ pc' = "prompt"
  /\ Unread
  /\ UNCHANGED <<build, flash>>

(* One copy cannot be read: the other one is taken, whatever its flags.    *)
LoadOther(c) ==
  /\ "load" \in Faults /\ Redundant
  /\ pc = "boot"
  /\ env' = Loaded(c)
  /\ envValid' = c
  /\ pc' = "prompt"
  /\ Unread
  /\ UNCHANGED <<build, flash>>

-----------------------------------------------------------------------------
(* The user, who may change the environment and save it.                   *)

SetEnv(v) ==
  /\ pc = "prompt"
  /\ env' = v
  /\ UNCHANGED <<build, flash, envValid, pc, history>>

(* env_save(): what it may leave behind is known from here on.             *)
Save ==
  /\ pc = "prompt"
  /\ pc' = "setup"
  /\ maybe' = maybe \cup {env} \cup (IF Redundant THEN {} ELSE {Default})
  /\ UNCHANGED <<build, flash, env, envValid, stored>>

-----------------------------------------------------------------------------
(* env_sf_save *)

Goto(l) == pc' = l /\ UNCHANGED <<env, envValid, history>>

(* env_new_offset: the copy to write.                                      *)
New == IF Redundant THEN 3 - envValid ELSE 1

(* The driver returns an error.  env_save() goes on to the next priority,  *)
(* for which env_get_location() returns the same location again.           *)
Failed == Goto("setup")

(* Returns success.                                                        *)
Succeeded ==
  /\ pc' = "prompt"
  /\ stored' = env
  /\ maybe' = {}
  /\ UNCHANGED env

(* setup_flash_device() resets the environment when the flash cannot be    *)
(* probed: the next attempt saves the default environment.                 *)
Setup ==
  /\ pc = "setup"
  /\ \/ Goto(IF Redundant THEN "export" ELSE "backup")
     \/ /\ "setup" \in Faults
        /\ env' = Default
        /\ maybe' = maybe \cup {Default}
        /\ UNCHANGED <<envValid, pc, stored>>
  /\ UNCHANGED <<build, flash>>

(* With one copy an error of malloc() leaves ret as setup_flash_device()   *)
(* has set it: the save returns success, and nothing is written.           *)
SucceededUnwritten ==
  /\ pc' = "prompt"
  /\ stored' = env
  /\ maybe' = maybe \cup {stored}
  /\ UNCHANGED <<env, envValid>>

(* Faulty variant: two copies do not set ret either.                       *)
BackupUnwritten ==
  /\ pc = "backup"
  /\ \/ Goto(IF Redundant THEN "erase" ELSE "export")
     \/ Embedded /\ "read" \in Faults /\ Failed
     \/ Embedded /\ "malloc" \in Faults /\ SucceededUnwritten
  /\ UNCHANGED <<build, flash>>

(* The rest of the sector is kept in a buffer.                             *)
Backup ==
  /\ pc = "backup"
  /\ \/ Goto(IF Redundant THEN "erase" ELSE "export")
     \/ Embedded /\ "read" \in Faults /\ Failed
     \/ Embedded /\ "malloc" \in Faults /\ Redundant /\ Failed
     \/ Embedded /\ "malloc" \in Faults /\ ~ Redundant /\ SucceededUnwritten
  /\ UNCHANGED <<build, flash>>

Export ==
  /\ pc = "export"
  /\ \/ Goto(IF Redundant THEN "backup" ELSE "erase")
     \/ "export" \in Faults /\ Failed
  /\ UNCHANGED <<build, flash>>

(* What the operation under way does when it is done.                      *)
EraseNew == data' = [data EXCEPT ![New] = Bad] /\ flags' = [flags EXCEPT ![New] = Erased]

WriteNew == data' = [data EXCEPT ![New] = env] /\ flags' = [flags EXCEPT ![New] = ACTIVE_FLAG]

MarkOld == flags' = [flags EXCEPT ![3 - New] = OBSOLETE_FLAG] /\ UNCHANGED data

(* What an operation that fails or is cut short may do.  A copy that is    *)
(* partly erased or written fails its CRC, and its flags are not looked at *)
(* any more; the flag is a single byte.                                    *)
Partly ==
  \/ UNCHANGED flash
  \/ pc \in {"erase", "write"} /\ EraseNew
  \/ pc = "write" /\ WriteNew
  \/ pc = "obsolete" /\ MarkOld

Erase ==
  /\ pc = "erase"
  /\ \/ EraseNew /\ Goto("write")
     \/ "erase" \in Faults /\ Partly /\ Failed
  /\ UNCHANGED build

Write ==
  /\ pc = "write"
  /\ \/ /\ WriteNew
        /\ IF Redundant THEN Goto("obsolete") ELSE Succeeded /\ UNCHANGED envValid
     \/ "write" \in Faults /\ Partly /\ Failed
  /\ UNCHANGED build

Obsolete ==
  /\ pc = "obsolete"
  /\ \/ /\ MarkOld
        /\ Succeeded
        /\ envValid' = IF envValid = 2 THEN 1 ELSE 2
     \/ "write" \in Faults /\ Partly /\ Failed
  /\ UNCHANGED build

-----------------------------------------------------------------------------
PowerLoss ==
  /\ pc # "boot"
  /\ Partly
  /\ env' = Default
  /\ pc' = "boot"
  /\ UNCHANGED <<build, envValid, history>>

Load == LoadGood \/ LoadNone \/ \E c \in Copy : LoadOther(c)

SaveStep == Setup \/ Backup \/ Export \/ Erase \/ Write \/ Obsolete

Next == Load \/ (\E v \in Value : SetEnv(v)) \/ Save \/ SaveStep \/ PowerLoss

Spec == Init /\ [][Next]_vars

-----------------------------------------------------------------------------
(* The inductive invariant *)

Found == Loaded(Selected)

(* With one copy a save is all or nothing only while it is under way.      *)
SingleOK ==
  /\ envValid = 1
  /\ pc # "obsolete"
  /\ pc \in Saving => Default \in maybe
  /\ pc = "prompt" /\ maybe = {} => Found = stored
  /\ Found \in {stored} \cup maybe

(* The copy in use is not touched by a save, but for its flag, and the     *)
(* other one is older, or holds what is being saved.                       *)
RedundantOK ==
  /\ Found \in {stored} \cup maybe
  /\ pc # "boot" => Loaded(envValid) = stored
  /\ pc = "prompt" => Selected \in {0, envValid}
  /\ pc \in Saving => Selected \in {0, envValid} \/ data[New] \in {Bad} \cup maybe

(* From a load that could not read what it wanted to the next good one or  *)
(* the next save that succeeds.                                            *)
UnreadOK ==
  /\ Default \in maybe
  /\ \A c \in Copy : Loaded(c) \in {stored} \cup maybe

IInv ==
  /\ TypeOK
  /\ IF Redundant THEN RedundantOK \/ UnreadOK ELSE SingleOK
  /\ pc \in Saving => env \in maybe
  /\ Redundant /\ pc = "write" => data[New] = Bad
  /\ Redundant /\ pc = "obsolete" => data[New] = env /\ flags[New] = ACTIVE_FLAG
  /\ \A c \in Copy : flags[c] = Erased => data[c] = Bad

-----------------------------------------------------------------------------
(* Correctness *)

(* At every moment, in the middle of an operation too, a boot loads what   *)
(* was loaded or saved with success last, or what a save that did not      *)
(* succeed was saving.  Where env_sf_save fails to do so, more may be      *)
(* found: after a load that could not read, what the copies held then;     *)
(* after a success that wrote nothing (one copy, and no memory for the     *)
(* buffer), what was stored before; with one copy, the default environment *)
(* after an interrupted save.  Two copies never lose both.                 *)
NothingLost == Found \in {stored} \cup maybe

Phase == IF pc \in Saving THEN "save" ELSE pc

Store == INSTANCE EnvStore WITH
  atomic <- Redundant, phase <- Phase, held <- {data[c] : c \in Copy} \ {Bad}

(* The flash with its driver implements EnvStore: nothing but a save       *)
(* changes what the copies hold, a save that went through all of its steps *)
(* is held and found, and with two copies a save is atomic, whatever fails *)
(* and whenever power is lost.                                             *)
ImplementsStore == Store!Spec
=============================================================================
