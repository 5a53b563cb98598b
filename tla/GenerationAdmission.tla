------------------------ MODULE GenerationAdmission ------------------------
(***************************************************************************)
(* What the gate of a plugin generation promises its callers, without the  *)
(* atomics: work is admitted to a generation until it is retired, admitted *)
(* work may finish, a retired generation becomes quiet exactly when its    *)
(* last work ends, and the visible generation is one that admits work.     *)
(***************************************************************************)
EXTENDS Naturals, FiniteSets

CONSTANTS Threads, Gens, NONE

VARIABLES
  phase,     \* admission of each generation
  holders,   \* threads with admitted work, per generation
  visible    \* the generation new work is directed to

vars == <<phase, holders, visible>>

Open    == 0
Closing == 1
Quiet   == 2

Init ==
  /\ phase = [g \in Gens |-> Open]
  /\ holders = [g \in Gens |-> {}]
  /\ visible = NONE

Admit(t, g) ==
  /\ phase[g] = Open
  /\ holders' = [holders EXCEPT ![g] = @ \cup {t}]
  /\ UNCHANGED <<phase, visible>>

Finish(t, g) ==
  /\ t \in holders[g]
  /\ holders' = [holders EXCEPT ![g] = @ \ {t}]
  /\ phase' = IF phase[g] = Closing /\ holders[g] = {t}
                THEN [phase EXCEPT ![g] = Quiet] ELSE phase
  /\ UNCHANGED visible

Retire(g) ==
  /\ visible # g
  /\ phase[g] = Open
  /\ phase' = [phase EXCEPT ![g] = IF holders[g] = {} THEN Quiet ELSE Closing]
  /\ UNCHANGED <<holders, visible>>

Show(g) ==
  /\ phase[g] = Open
  /\ visible' = g
  /\ UNCHANGED <<phase, holders>>

Hide ==
  /\ visible' = NONE
  /\ UNCHANGED <<phase, holders>>

Next ==
  \/ \E g \in Gens : \/ \E t \in Threads : Admit(t, g) \/ Finish(t, g)
                     \/ Retire(g)
                     \/ Show(g)
  \/ Hide

Spec == Init /\ [][Next]_vars

=============================================================================
