------------------------------ MODULE EnvStore ------------------------------
(***************************************************************************)
(* What the environment storage of U-Boot promises.  A boot loads what was *)
(* loaded or saved with success last, or what a save that was cut short    *)
(* was saving.  The storage holds nothing but what saves have written, and *)
(* changes during saves only.  Atomic storage never falls back to the      *)
(* default environment because a save was interrupted, and reports success *)
(* for nothing it has not stored; storage with a single copy may do both.  *)
(***************************************************************************)
CONSTANTS
  Contents,     \* what an environment may hold, the default one included
  Default       \* the environment that is compiled in

VARIABLES
  atomic,       \* whether an interrupted save leaves the old or the new one
  phase,        \* "boot", "prompt" or "save"
  env,          \* the environment in use
  held,         \* the environments that are somewhere in the storage
  stored,       \* the last one that was loaded, or saved with success
  maybe         \* what else the next boot may find

vars == <<atomic, phase, env, held, stored, maybe>>

Init ==
  /\ atomic \in BOOLEAN /\ phase = "boot"
  /\ env = Default /\ held = {}
  /\ stored = Default /\ maybe = {}

Load ==
  /\ phase = "boot" /\ phase' = "prompt"
  /\ env' \in ({stored} \cup maybe) \cap (held \cup {Default})
  /\ stored' = env'
  /\ maybe' = {}
  /\ UNCHANGED <<atomic, held>>

(* A load that could not read what is stored takes something else that is  *)
(* held.  Saves may then replace any of it, and a boot find the others.    *)
Misread ==
  /\ phase = "boot" /\ phase' = "prompt"
  /\ env' \in held \cup {Default}
  /\ maybe' = maybe \cup held \cup {Default}
  /\ UNCHANGED <<atomic, held, stored>>

Set(v) ==
  /\ phase = "prompt"
  /\ env' = v
  /\ UNCHANGED <<atomic, phase, held, stored, maybe>>

BeginSave ==
  /\ phase = "prompt" /\ phase' = "save"
  /\ maybe' = maybe \cup {env} \cup (IF atomic THEN {} ELSE {Default})
  /\ UNCHANGED <<atomic, env, held, stored>>

(* What is held is erased, or what is being saved is written.              *)
Change == held' \in SUBSET (held \cup {env})

Work == phase = "save" /\ Change /\ UNCHANGED <<atomic, phase, env, stored, maybe>>

(* The environment is reset while it is being saved.                       *)
Reset ==
  /\ phase = "save"
  /\ env' = Default /\ maybe' = maybe \cup {Default}
  /\ UNCHANGED <<atomic, phase, held, stored>>

(* The save returns success, and what it saved is held.                    *)
Commit ==
  /\ phase = "save" /\ phase' = "prompt"
  /\ Change /\ env \in held'
  /\ stored' = env /\ maybe' = {}
  /\ UNCHANGED <<atomic, env>>

(* The save returns success although it has saved nothing.                 *)
Pretend ==
  /\ phase = "save" /\ phase' = "prompt" /\ ~ atomic
  /\ stored' = env /\ maybe' = maybe \cup {stored}
  /\ UNCHANGED <<atomic, env, held>>

(* Power is lost, and with it the environment in use.                      *)
Lose ==
  /\ phase # "boot" /\ phase' = "boot"
  /\ env' = Default
  /\ IF phase = "save" THEN Change ELSE UNCHANGED held
  /\ UNCHANGED <<atomic, stored, maybe>>

Next ==
  \/ Load \/ Misread \/ \E v \in Contents : Set(v)
  \/ BeginSave \/ Work \/ Reset \/ Commit \/ Pretend \/ Lose

Spec == Init /\ [][Next]_vars
=============================================================================
