--------------------------- MODULE OrderLifecycle ---------------------------
(***************************************************************************)
(* What the paper OMS promises about one order, seen from outside: it is   *)
(* vetted, refused or queued, delivered, executed bit by bit up to its     *)
(* quantity and closed once, and nothing is executed before delivery or    *)
(* after closing.  PaperOMS implements it (PaperOMS!ImplementsLifecycle).  *)
(***************************************************************************)
EXTENDS Integers

CONSTANTS Orders, Quantity

VARIABLES
  phase,     \* [Orders -> {"absent", "vetting", "queued", "working", "closed"}]
  executed   \* [Orders -> Nat]

lifecycleVars == <<phase, executed>>

Moves(o, from, to) ==
  /\ phase[o] \in from
  /\ phase' = [phase EXCEPT ![o] = to]
  /\ UNCHANGED executed

Accept(o) == Moves(o, {"absent"}, "vetting")
Refuse(o) == Moves(o, {"vetting"}, "closed")
Queue(o) == Moves(o, {"vetting"}, "queued")
Deliver(o) == Moves(o, {"queued"}, "working")

\* Rejected, cancelled or expired with something left to execute.
Close(o) == executed[o] < Quantity[o] /\ Moves(o, {"queued", "working"}, "closed")

Execute(o) ==
  /\ phase[o] = "working"
  /\ \E q \in 1..(Quantity[o] - executed[o]) :
       executed' = [executed EXCEPT ![o] = @ + q]
  /\ phase' = [phase EXCEPT ![o] =
       IF executed'[o] = Quantity[o] THEN "closed" ELSE "working"]

LifecycleInit ==
  /\ phase = [o \in Orders |-> "absent"]
  /\ executed = [o \in Orders |-> 0]

LifecycleNext ==
  \E o \in Orders :
    Accept(o) \/ Refuse(o) \/ Queue(o) \/ Deliver(o) \/ Execute(o) \/ Close(o)

LifecycleSpec == LifecycleInit /\ [][LifecycleNext]_lifecycleVars
=============================================================================
