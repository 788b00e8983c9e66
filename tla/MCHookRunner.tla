----------------------------- MODULE MCHookRunner -----------------------------
(* HookRunner with three fires and registrations of every kind.            *)
EXTENDS HookRunner

Registration(k, h) == [kind |-> k, hard |-> h]

ThreeFires == 1..3
ThreeSlots ==
    << << Registration("override", TRUE), Registration("fn", FALSE) >>,
       << Registration("script", FALSE), Registration("orphaned", TRUE) >>,
       << Registration("fn", TRUE) >> >>

OneFire == 1..1
OneScript == << << Registration("script", TRUE) >> >>
=============================================================================
