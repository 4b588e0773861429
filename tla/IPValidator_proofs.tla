--------------------------- MODULE IPValidator_proofs ---------------------------
(* Proofs of the properties of IPValidator.                                 *)
EXTENDS IPValidator, TLAPS

\* What Update is about to install is as good as what it has installed.
FetchedWhole ==
    /\ published \in everPublished
    /\ fetched \in everPublished \cup {{}}
    /\ RangesArePublished

\* No step of the validator, of GitHub or of the process makes ranges that no
\* document had.
LEMMA FetchedWholeInductive == FetchedWhole /\ [Next]_vars => FetchedWhole'
<1> USE DEF FetchedWhole, RangesArePublished, github
<1> SUFFICES ASSUME FetchedWhole, [Next]_vars PROVE FetchedWhole'
  OBVIOUS
<1>1. CASE NewIPValidator
  BY <1>1 DEF NewIPValidator
<1>2. CASE Get
  BY <1>2 DEF Get
<1>3. CASE GetErrorDocument
  BY <1>3 DEF GetErrorDocument
<1>4. CASE UpdateFails
  BY <1>4 DEF UpdateFails, Return
<1>5. CASE Install
  BY <1>5 DEF Install, Return
<1>6. CASE Tick
  BY <1>6 DEF Tick
<1>7. CASE \E ranges \in Documents : Rotate(ranges)
  BY <1>7 DEF Rotate
<1>8. CASE Crash
  BY <1>8 DEF Crash
<1>9. CASE FaultElsewhere
  BY <1>9 DEF FaultElsewhere
<1>10. CASE UNCHANGED vars
  BY <1>10 DEF vars
<1> QED
  BY <1>1, <1>2, <1>3, <1>4, <1>5, <1>6, <1>7, <1>8, <1>9, <1>10 DEF Next, Update

\* Requests are checked against a whole document that GitHub has published at
\* some time, or against nothing: Update installs only after every CIDR of the
\* document has been parsed, and an Update that fails installs nothing.
THEOREM RangesArePublishedHolds == Spec => []RangesArePublished
<1>1. Init => FetchedWhole
  BY DEF Init, FetchedWhole, RangesArePublished
<1>2. FetchedWhole => RangesArePublished
  BY DEF FetchedWhole
<1> QED
  BY <1>1, <1>2, FetchedWholeInductive, PTL DEF Spec
=================================================================================
