------------------------------ MODULE Delegate ------------------------------
(***************************************************************************)
(* A delegate holds a function pointer, a function pointer with an object, *)
(* or a std::function, one at a time in a union (Delegate.h, DelegatePImpl *)
(* as the firmware's compiler sees it).  The constructors, the destructor  *)
(* and the assignments see to it by hand that the union's member that the  *)
(* kind names is the one that is alive.                                    *)
(***************************************************************************)
CONSTANTS Places,     \* where delegates are: variables, nodes of a list
          Targets,    \* what can be called
          Objects     \* the objects that go with a function

VARIABLES place,      \* each place: the delegate's kind, function and object, and which
                      \* members of its union are alive; or no delegate at all
          meant       \* history: what a call of each delegate is to do

vars == <<place, meant>>

Null == "null"
NoDelegate == [kind |-> "gone", fn |-> Null, obj |-> Null, alive |-> {}]
Is(p) == place[p].kind # "gone"

\* The member whose life the delegate manages by hand; a plain pointer has none.
Member == [FP |-> {}, FPA |-> {"obj"}, FUNC |-> {"functional"}]

Values ==
  [kind : {"FP", "FUNC"}, fn : Targets \cup {Null}, obj : {Null}]
    \cup [kind : {"FPA"}, fn : Targets \cup {Null}, obj : Objects]

\* operator(): what is called; nothing is, and R() returned, when there is no function.
Call(d) == IF d.fn = Null THEN Null ELSE IF d.kind = "FPA" THEN <<d.fn, d.obj>> ELSE <<d.fn>>

Init ==
  /\ place = [p \in Places |-> NoDelegate]
  /\ meant = [p \in Places |-> Null]

-----------------------------------------------------------------------------
\* A constructor, from a pointer, a pointer and an object, or a functional.
New(v) == [kind |-> v.kind, fn |-> v.fn, obj |-> v.obj, alive |-> Member[v.kind]]

Construct(p, v) ==
  /\ ~Is(p)
  /\ place' = [place EXCEPT ![p] = New(v)]
  /\ meant' = [meant EXCEPT ![p] = Call(v)]

\* What is left where a value was moved from: a pointer stays, a functional and an object
\* are whatever their own move leaves.
MovedFrom(d) ==
  CASE d.kind = "FP"   -> {d}
    [] d.kind = "FPA"  -> {[d EXCEPT !.obj = o] : o \in {d.obj, Null}}
    [] d.kind = "FUNC" -> {[d EXCEPT !.fn = f] : f \in {d.fn, Null}}

\* What a call of a delegate that was moved from does nobody may rely on.
Unknown == "unknown"
MeantAfterMove(d, m) == IF d.kind = "FP" THEN m ELSE Unknown

CopyConstruct(p, q) ==
  /\ ~Is(p) /\ Is(q)
  /\ place' = [place EXCEPT ![p] = New(place[q])]
  /\ meant' = [meant EXCEPT ![p] = meant[q]]

MoveConstruct(p, q) ==
  /\ ~Is(p) /\ Is(q)
  /\ \E left \in MovedFrom(place[q]) : place' = [place EXCEPT ![p] = New(place[q]), ![q] = left]
  /\ meant' = [meant EXCEPT ![p] = meant[q], ![q] = MeantAfterMove(place[q], @)]

-----------------------------------------------------------------------------
\* The member of the kind it had is destroyed.
Dropped(d) == [d EXCEPT !.alive = @ \ (IF d.kind = "gone" THEN {} ELSE Member[d.kind])]

\* Before an assignment of another kind the old member makes room for a new one.
Rebuilt(d, kind) ==
  IF d.kind = kind THEN d ELSE [Dropped(d) EXCEPT !.kind = kind, !.alive = @ \cup Member[kind]]

Assigned(d, from) == [Rebuilt(d, from.kind) EXCEPT !.fn = from.fn, !.obj = from.obj]

\* operator=(const&); an assignment to itself changes nothing.
CopyAssign(p, q) ==
  /\ Is(p) /\ Is(q) /\ p # q
  /\ place' = [place EXCEPT ![p] = Assigned(@, place[q])]
  /\ meant' = [meant EXCEPT ![p] = meant[q]]

\* operator=(&&).
MoveAssign(p, q) ==
  /\ Is(p) /\ Is(q) /\ p # q
  /\ \E left \in MovedFrom(place[q]) :
       place' = [place EXCEPT ![p] = Assigned(@, place[q]), ![q] = left]
  /\ meant' = [meant EXCEPT ![p] = meant[q], ![q] = MeantAfterMove(place[q], @)]

\* operator= from a function pointer or nullptr.
AssignPointer(p, f) ==
  /\ Is(p)
  /\ place' = [place EXCEPT ![p] = [Dropped(@) EXCEPT !.kind = "FP", !.fn = f, !.obj = Null]]
  /\ meant' = [meant EXCEPT ![p] = IF f = Null THEN Null ELSE <<f>>]

\* The destructor.
Destroy(p) ==
  /\ Is(p)
  /\ place' = [place EXCEPT ![p] = [NoDelegate EXCEPT !.alive = Dropped(place[p]).alive]]
  /\ meant' = [meant EXCEPT ![p] = Null]

-----------------------------------------------------------------------------
Next ==
  \E p \in Places :
    \/ \E v \in Values : Construct(p, v)
    \/ \E q \in Places : \/ CopyConstruct(p, q) \/ MoveConstruct(p, q)
                         \/ CopyAssign(p, q) \/ MoveAssign(p, q)
    \/ \E f \in Targets \cup {Null} : AssignPointer(p, f)
    \/ Destroy(p)

Spec == Init /\ [][Next]_vars

-----------------------------------------------------------------------------
\* A delegate is a value: whatever it held before and however it came to what it holds
\* now, a call does what was last put there, and of its union that member is alive, and
\* no other, that its kind names, so that none is destroyed twice, leaked, or assigned to
\* unborn (Delegate.h DelegatePImpl).
DelegatesAreValues ==
  \A p \in Places :
    /\ place[p].alive = (IF Is(p) THEN Member[place[p].kind] ELSE {})
    /\ meant[p] # Unknown => Call(place[p]) = meant[p]
=============================================================================
