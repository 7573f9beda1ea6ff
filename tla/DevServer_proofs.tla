-------------------------- MODULE DevServer_proofs --------------------------
(***************************************************************************)
(* For any codes, requests and number of attempts: types, that the map     *)
(* never holds more links than requests to shorten have ended, and that a  *)
(* link is only ever replaced through the gap between Lookup and Save.     *)
(***************************************************************************)
EXTENDS DevServer, FiniteSetTheorems, TLAPS

Published == {c \in Codes : data[c] # NoLink}

Shortened == {r \in Reqs : IsShorten(r) /\ pc[r] = "done"}

Inv ==
    /\ TypeOK
    /\ \A r \in Reqs : pc[r] = "save" => IsShorten(r) /\ code[r] \in Codes
    /\ \A r \in Reqs : pc[r] = "lookup" => code[r] \in Codes
    /\ OneLinkPerShorten

LEMMA Finite ==
    ASSUME NEW S \in SUBSET Codes, NEW Q \in SUBSET Reqs
    PROVE  IsFiniteSet(S) /\ Cardinality(S) \in Nat /\ IsFiniteSet(Q) /\ Cardinality(Q) \in Nat
  <1>1. IsFiniteSet(S) /\ IsFiniteSet(Q)
    BY DevAssumption, FS_Subset
  <1> QED
    BY <1>1, FS_CardinalityType

LEMMA InitInv == Init => Inv
  <1> SUFFICES ASSUME Init PROVE Inv
    OBVIOUS
  <1>1. TypeOK
    BY DevAssumption DEF Init, TypeOK
  <1>2. Published = {} /\ Shortened = {}
    BY DEF Init, Published, Shortened
  <1>3. OneLinkPerShorten
    BY <1>2, FS_EmptySet DEF OneLinkPerShorten, Published, Shortened
  <1> QED
    BY <1>1, <1>3 DEF Init, Inv

\* A step that publishes nothing and forgets no request keeps the bound.
LEMMA NothingPublished ==
    ASSUME OneLinkPerShorten, data' = data, Shortened \subseteq Shortened'
    PROVE  OneLinkPerShorten'
  <1>1. Cardinality(Shortened) <= Cardinality(Shortened')
    <2>1. IsFiniteSet(Shortened')
      BY Finite DEF Shortened
    <2> QED
      BY <2>1, FS_Subset
  <1>2. /\ Cardinality(Published) \in Nat
        /\ Cardinality(Shortened) \in Nat /\ Cardinality(Shortened') \in Nat
    <2>1. Published \in SUBSET Codes /\ Shortened \in SUBSET Reqs /\ Shortened' \in SUBSET Reqs
      BY DEF Published, Shortened
    <2> QED
      BY <2>1, Finite
  <1>3. Published' = Published
    BY DEF Published
  <1>4. Cardinality(Published) <= Cardinality(Shortened)
    BY DEF OneLinkPerShorten, Published, Shortened
  <1>5. Cardinality(Published') <= Cardinality(Shortened')
    BY <1>1, <1>2, <1>3, <1>4
  <1> QED
    BY <1>5 DEF OneLinkPerShorten, Published, Shortened

\* Save puts at most one link into the map and ends one request.
LEMMA SaveKeepsBound ==
    ASSUME Inv, NEW r \in Reqs, Save(r)
    PROVE  OneLinkPerShorten'
  <1>1. /\ pc[r] = "save" /\ IsShorten(r) /\ code[r] \in Codes
        /\ pc' = [pc EXCEPT ![r] = "done"] /\ want' = want
        /\ data' = [data EXCEPT ![code[r]] = want[r]]
    BY DEF Save, Answers, Goes, Inv
  <1>2. Shortened' = Shortened \cup {r} /\ r \notin Shortened
    BY <1>1 DEF Shortened, IsShorten, Inv, TypeOK
  <1>3. Published' = Published \cup {code[r]}
    BY <1>1 DEF Published, IsShorten, Inv, TypeOK
  <1>4. Published \in SUBSET Codes /\ Shortened \in SUBSET Reqs
    BY DEF Published, Shortened
  <1>5. /\ IsFiniteSet(Published) /\ Cardinality(Published) \in Nat
        /\ IsFiniteSet(Shortened) /\ Cardinality(Shortened) \in Nat
    BY <1>4, Finite
  <1>6. Cardinality(Shortened') = Cardinality(Shortened) + 1
    BY <1>2, <1>5, FS_AddElement
  <1>7. Cardinality(Published') \in {Cardinality(Published), Cardinality(Published) + 1}
    BY <1>3, <1>5, FS_AddElement
  <1>8. Cardinality(Published) <= Cardinality(Shortened)
    BY DEF Inv, OneLinkPerShorten, Published, Shortened
  <1>9. Cardinality(Published') <= Cardinality(Shortened')
    BY <1>5, <1>6, <1>7, <1>8
  <1> QED
    BY <1>9 DEF OneLinkPerShorten, Published, Shortened

LEMMA NextKeepsInv ==
    ASSUME Inv, [Next]_vars
    PROVE  Inv'
  <1> DEFINE Codes1 == /\ \A r \in Reqs : pc[r] = "save" => IsShorten(r) /\ code[r] \in Codes
                       /\ \A r \in Reqs : pc[r] = "lookup" => code[r] \in Codes
  <1> USE DevAssumption DEF Inv, TypeOK, Goes, Answers, IsShorten
  <1>1. CASE Tick \/ UNCHANGED vars
    <2>1. TypeOK' /\ Codes1'
      BY <1>1 DEF Tick, vars
    <2>2. OneLinkPerShorten'
      BY <1>1, NothingPublished DEF Tick, vars, Shortened
    <2> QED
      BY <2>1, <2>2
  <1>2. ASSUME NEW r \in Reqs, Arrive(r) PROVE Inv'
    <2>1. TypeOK' /\ Codes1'
      BY <1>2 DEF Arrive
    <2>2. Shortened \subseteq Shortened' /\ data' = data
      BY <1>2 DEF Arrive, Shortened
    <2> QED
      BY <2>1, <2>2, NothingPublished
  <1>3. ASSUME NEW r \in Reqs, Generate(r) PROVE Inv'
    <2>1. TypeOK' /\ Codes1'
      BY <1>3 DEF Generate
    <2>2. Shortened \subseteq Shortened' /\ data' = data
      BY <1>3 DEF Generate, Shortened
    <2> QED
      BY <2>1, <2>2, NothingPublished
  <1>4. ASSUME NEW r \in Reqs, GiveUp(r) PROVE Inv'
    <2>1. TypeOK' /\ Codes1'
      BY <1>4 DEF GiveUp, CreatedOrNot
    <2>2. Shortened \subseteq Shortened' /\ data' = data
      BY <1>4 DEF GiveUp, Shortened
    <2> QED
      BY <2>1, <2>2, NothingPublished
  <1>5. ASSUME NEW r \in Reqs, LookupCode(r) PROVE Inv'
    <2>1. TypeOK' /\ Codes1'
      BY <1>5 DEF LookupCode
    <2>2. Shortened \subseteq Shortened' /\ data' = data
      BY <1>5 DEF LookupCode, Shortened
    <2> QED
      BY <2>1, <2>2, NothingPublished
  <1>6. ASSUME NEW r \in Reqs, Save(r) PROVE Inv'
    <2>1. TypeOK' /\ Codes1'
      BY <1>6 DEF Save, CreatedOrNot
    <2> QED
      BY <2>1, <1>6, SaveKeepsBound
  <1>7. ASSUME NEW r \in Reqs, Redirect(r) PROVE Inv'
    <2>1. TypeOK' /\ Codes1'
      BY <1>7 DEF Redirect, AfterTrack
    <2>2. Shortened \subseteq Shortened' /\ data' = data
      BY <1>7 DEF Redirect, Shortened
    <2> QED
      BY <2>1, <2>2, NothingPublished
  <1> QED
    BY <1>1, <1>2, <1>3, <1>4, <1>5, <1>6, <1>7 DEF Next, Serve

LEMMA Invariance == Spec => []Inv
  <1> QED
    BY InitInv, NextKeepsInv, PTL DEF Spec

\* Every variable stays within its type, and no request tries more codes than
\* the loop allows.
THEOREM TypeCorrect == Spec => []TypeOK
  <1>1. Inv => TypeOK
    BY DEF Inv
  <1> QED
    BY <1>1, Invariance, PTL

\* The break after Save: no request leaves more than one link, for any number
\* of attempts, codes and requests.
THEOREM AtMostOneLink == Spec => []OneLinkPerShorten
  <1>1. Inv => OneLinkPerShorten
    BY DEF Inv
  <1> QED
    BY <1>1, Invariance, PTL
-----------------------------------------------------------------------------
\* The lock of the store held from a successful Lookup to its Save, for each code.
CodesLocked == \A r, x \in Reqs :
    r # x /\ pc[r] = "save" /\ pc[x] = "save" => code[r] # code[x]

\* What the Lookup found is still so.
StillFree == \A r \in Reqs : pc[r] = "save" => data[code[r]] = NoLink

LEMMA NextKeepsFree ==
    ASSUME Inv, StillFree, CodesLocked, [Next]_vars
    PROVE  StillFree'
  <1> USE DEF StillFree, Inv, TypeOK, Goes, Answers
  <1>1. CASE Tick \/ UNCHANGED vars
    BY <1>1 DEF Tick, vars
  <1>2. ASSUME NEW r \in Reqs, Arrive(r) PROVE StillFree'
    BY <1>2 DEF Arrive
  <1>3. ASSUME NEW r \in Reqs, Generate(r) PROVE StillFree'
    BY <1>3 DEF Generate
  <1>4. ASSUME NEW r \in Reqs, GiveUp(r) PROVE StillFree'
    BY <1>4 DEF GiveUp
  <1>5. ASSUME NEW r \in Reqs, LookupCode(r) PROVE StillFree'
    BY <1>5 DEF LookupCode
  <1>6. ASSUME NEW r \in Reqs, Save(r) PROVE StillFree'
    <2>1. \A x \in Reqs : x # r /\ pc[x] = "save" => data'[code[x]] = data[code[x]]
      BY <1>6 DEF Save, CodesLocked
    <2> QED
      BY <1>6, <2>1 DEF Save
  <1>7. ASSUME NEW r \in Reqs, Redirect(r) PROVE StillFree'
    BY <1>7 DEF Redirect
  <1> QED
    BY <1>1, <1>2, <1>3, <1>4, <1>5, <1>6, <1>7 DEF Next, Serve

\* Only Save writes the map, and it writes where nothing is.
LEMMA FreeIsNotReplaced ==
    ASSUME Inv, StillFree, [Next]_vars
    PROVE  [\A c \in Codes : data[c] # NoLink => data'[c] = data[c]]_data
  <1>1. CASE data' = data
    BY <1>1
  <1>2. ASSUME NEW r \in Reqs, Save(r)
        PROVE  \A c \in Codes : data[c] # NoLink => data'[c] = data[c]
    BY <1>2 DEF Save, Answers, Goes, StillFree, Inv, TypeOK
  <1> QED
    BY <1>1, <1>2 DEF Next, Serve, Tick, vars, Arrive, Generate, GiveUp, LookupCode, Redirect

\* Were no two requests between the lookup and the save of one code, as when one
\* call of the store did both under its lock, a published link would never be
\* replaced: the run that finds one replaced has no other cause.
THEOREM LockedCodesSuffice == Spec /\ []CodesLocked => NeverReplaced
  <1>1. Init => StillFree
    BY DEF Init, StillFree
  <1>2. Inv /\ StillFree /\ CodesLocked /\ [Next]_vars => StillFree'
    BY NextKeepsFree
  <1>3. Inv /\ StillFree /\ [Next]_vars
        => [\A c \in Codes : data[c] # NoLink => data'[c] = data[c]]_data
    BY FreeIsNotReplaced
  <1> QED
    BY <1>1, <1>2, <1>3, Invariance, PTL DEF Spec, NeverReplaced
=============================================================================
