----------------------------- MODULE MCBuildId -----------------------------
(* TLC instances of BuildId.                                               *)
EXTENDS BuildId

MCNgxBuild == <<1, 35>>

Note(type, namesz, gnu, desc) ==
  [type |-> type, namesz |-> namesz, gnu |-> gnu, desc |-> desc]

(* The build id nginx was built with, another one, an ABI tag, a note of   *)
(* another vendor with the same type, a note without a descriptor, one     *)
(* with neither name nor descriptor, and one that needs padding.           *)
MCNote ==
  {Note(3, 4, TRUE, <<1, 35>>), Note(3, 4, TRUE, <<18, 3>>),
   Note(1, 4, TRUE, [i \in 1..16 |-> 0]), Note(3, 4, FALSE, <<1, 35>>),
   Note(3, 4, TRUE, <<>>), Note(0, 0, FALSE, <<>>), Note(7, 4, FALSE, <<1, 2, 3, 4, 5>>)}

Starts(notes) ==
  LET F[i \in 1 .. Len(notes) + 1] ==
        IF i = 1 THEN 0 ELSE F[i - 1] + CHOOSE k \in 0..40 : Stride(notes[i - 1], k)
  IN  F

Padding(notes) ==
  IF notes = <<>> THEN 0
  ELSE LET n == Len(notes[Len(notes)].desc) IN ((n + 3) \div 4) * 4 - n

Seg(ptNote, notes, slack) ==
  [ptNote |-> ptNote, notes |-> notes, start |-> Starts(notes),
   filesz |-> Starts(notes)[Len(notes) + 1] - slack]

NoteSegs(notes) == {Seg(TRUE, notes, slack) : slack \in {0, Padding(notes)}}

UpToTwo == {<<>>} \cup {<<m>> : m \in MCNote} \cup {<<m, n>> : m, n \in MCNote}

(* A segment that is loaded, one with up to two notes, one with one note.  *)
Main == {[name |-> "", segs |-> <<Seg(FALSE, <<>>, 0), s, t>>] :
           s \in UNION {NoteSegs(ns) : ns \in UpToTwo},
           t \in UNION {NoteSegs(<<n>>) : n \in MCNote}}

(* A library that has the build id nginx should have.                      *)
Libc == [name |-> "libc", segs |-> <<Seg(TRUE, <<Note(3, 4, TRUE, MCNgxBuild)>>, 0)>>]

MCImage == {<<m>> : m \in Main} \cup {<<Libc, m>> : m \in Main}

=============================================================================
