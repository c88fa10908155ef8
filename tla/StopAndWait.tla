------------------------------ MODULE StopAndWait ------------------------------
(***************************************************************************)
(* What the HARQ processes of a link promise, without the feedback lists,  *)
(* timers and resources they are built from: a process carries one block   *)
(* at a time.  The block is sent, is answered once for each time it was    *)
(* sent, and what was not decoded of it, and nothing else, is sent again   *)
(* in the next redundancy version.  The process is given another block     *)
(* only when everything was decoded or the last version was answered.      *)
(***************************************************************************)
EXTENDS Naturals

CONSTANTS
  Process,  \* the HARQ processes
  Part,     \* what is decoded and answered on its own: the streams of a block
  MaxRv     \* the last redundancy version

VARIABLE state  \* state[p]: what process p is doing

Free == [at |-> "free", parts |-> {}, rv |-> 0]
Sent(parts, rv) == [at |-> "sent", parts |-> parts, rv |-> rv]
\* parts is what was not decoded.
Answered(parts, rv) == [at |-> "answered", parts |-> parts, rv |-> rv]

State == [at : {"free", "sent", "answered"}, parts : SUBSET Part, rv : 0 .. MaxRv]

Init == state = [p \in Process |-> Free]

Answer(s, t) ==
  s.at = "sent" /\ \E parts \in SUBSET s.parts : t = Answered(parts, s.rv)

SendAgain(s, t) ==
  s.at = "answered" /\ s.parts # {} /\ s.rv < MaxRv /\ t = Sent(s.parts, s.rv + 1)

\* The block is finished: decoded, or given up after its last version.
Finished(s) == s.at = "answered" /\ (s.parts = {} \/ s.rv = MaxRv)

Finish(s, t) == Finished(s) /\ t = Free

SendNew(s, t) ==
  /\ s = Free \/ Finished(s)
  /\ \E parts \in (SUBSET Part) \ {{}} : t = Sent(parts, 0)

\* In a step each process does one of these, or nothing.
Step(s, t) ==
  t = s \/ Answer(s, t) \/ SendAgain(s, t) \/ Finish(s, t) \/ SendNew(s, t)

Next == /\ state' \in [Process -> State]
        /\ \A p \in Process : Step(state[p], state'[p])

Spec == Init /\ [][Next]_state
=============================================================================
