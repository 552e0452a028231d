--------------------------- MODULE BuildIdProofs ---------------------------
(***************************************************************************)
(* Proofs about the build-id check, for every process image that is laid   *)
(* out as ImageAssumption says and every build id.                         *)
(*                                                                         *)
(* The inductive invariant says where the search is: no build id of the    *)
(* program lies before the place it is at, the pointer is at the start of  *)
(* a note or at the end of the last one, and len is what is left of the    *)
(* file part of the segment.                                               *)
(***************************************************************************)
EXTENDS BuildId, TLAPS

(* The search is in an object that is the program.                         *)
InProgram ==
  /\ note = None
  /\ obj \in DOMAIN img /\ img[obj].name = Self

(* The pointer is at note i, or past the last when there is no note i.     *)
AtNote(i) ==
  /\ i \in 1 .. Len(Segs[seg].notes) + 1
  /\ pos = Segs[seg].start[i]
  /\ NoneBefore(img, obj, seg, i)

ObjectPlace == pc = "object" => note = None /\ NoneBefore(img, obj, 1, 1)

SegmentPlace ==
  pc = "segment" => /\ InProgram
                    /\ seg \in 1 .. Len(Segs) + 1
                    /\ NoneBefore(img, obj, seg, 1)

NotePlace ==
  pc = "note" => /\ InProgram
                 /\ seg \in DOMAIN Segs /\ Segs[seg].ptNote
                 /\ len = Segs[seg].filesz - pos
                 /\ \E i \in 1 .. Len(Segs[seg].notes) + 1 : AtNote(i)

(* n is the first build id of the program.                                 *)
FirstId(p, n) ==
  \E o \in DOMAIN p : \E g \in DOMAIN p[o].segs :
    \E i \in DOMAIN p[o].segs[g].notes :
      /\ Candidate(p, o, g, i) /\ NoneBefore(p, o, g, i)
      /\ n = p[o].segs[g].notes[i]

ComparePlace ==
  pc = "compare" =>
    \/ note = None /\ NoneBefore(img, Len(img) + 1, 1, 1)
    \/ note # None /\ FirstId(img, note)

(* A library that is open and was refused has made load_ffi fail.          *)
Refused == pc = "lua" /\ open /\ ~resolved => failed

(* The library is open while its function runs.                            *)
SearchOpen == pc # "lua" => open

ScanType ==
  /\ img \in Image
  /\ BuildIdTypeOK

ScanInv ==
  /\ ScanType
  /\ ObjectPlace /\ SegmentPlace /\ NotePlace /\ ComparePlace
  /\ CheckCorrect /\ NoWildRead /\ ResolvedMatches
  /\ UncheckedAfterFailure /\ Refused /\ SearchOpen

-----------------------------------------------------------------------------
(* Alignment and layout.                                                   *)

(* ALIGN(n, 4) is the multiple of 4 at or after n.                         *)
LEMMA AlignPads ==
  ASSUME NEW n \in Nat
  PROVE  /\ Align(n) \in Nat
         /\ \A m \in n .. n + 3 : Padded(n, m) => m = Align(n)
BY DEF Align, Padded

(* The offset the code adds is the distance to the next note.              *)
LEMMA StrideIsSize ==
  ASSUME NEW n, IsNote(n), NEW k \in Int, Stride(n, k)
  PROVE  k = Size(n) /\ Size(n) \in Nat
<1>1. n.namesz \in Nat /\ Len(n.desc) \in Nat
  BY DEF IsNote
<1>2. PICK name \in n.namesz .. n.namesz + 3,
           desc \in Len(n.desc) .. Len(n.desc) + 3 :
        /\ Padded(n.namesz, name) /\ Padded(Len(n.desc), desc)
        /\ k = Header + name + desc
  BY DEF Stride
<1>3. name = Align(n.namesz) /\ Align(n.namesz) \in Nat
  BY <1>1, <1>2, AlignPads
<1>4. desc = Align(Len(n.desc)) /\ Align(Len(n.desc)) \in Nat
  BY <1>1, <1>2, AlignPads
<1> QED
  BY <1>2, <1>3, <1>4 DEF Size, Header

(* A note with a four-byte name and a descriptor has 20 bytes at least.    *)
LEMMA IdStride ==
  ASSUME NEW n, IsNote(n), NEW k \in Int, Stride(n, k),
         n.namesz = 4, Len(n.desc) > 0
  PROVE  k >= 20
<1>1. Len(n.desc) \in Nat
  BY DEF IsNote
<1>2. PICK name \in n.namesz .. n.namesz + 3,
           desc \in Len(n.desc) .. Len(n.desc) + 3 :
        /\ Padded(n.namesz, name) /\ Padded(Len(n.desc), desc)
        /\ k = Header + name + desc
  BY DEF Stride
<1>3. name >= 4
  BY <1>2
<1>4. desc >= 4
  BY <1>1, <1>2 DEF Padded
<1> QED
  BY <1>2, <1>3, <1>4 DEF Header

(* The objects and segments of a process are laid out as assumed.          *)
Laid(p) ==
  /\ Len(p) \in Nat /\ DOMAIN p = 1 .. Len(p)
  /\ \A o \in DOMAIN p :
       /\ Len(p[o].segs) \in Nat /\ DOMAIN p[o].segs = 1 .. Len(p[o].segs)
       /\ \A g \in DOMAIN p[o].segs : IsSegment(p[o].segs[g])

(* A sequence is empty when its length is 0.                               *)
LEMMA EmptyLen ==
  ASSUME NEW S, NEW q \in Seq(S)
  PROVE  q # <<>> <=> Len(q) > 0
OBVIOUS

(* An increasing function does not decrease and repeats nothing.           *)
LEMMA Increasing ==
  ASSUME NEW n \in Nat, NEW f \in [1 .. n + 1 -> Nat],
         \A a, b \in 1 .. n + 1 : a < b => f[a] < f[b]
  PROVE  \A a, b \in 1 .. n + 1 :
           (a <= b => f[a] <= f[b]) /\ (f[a] = f[b] => a = b)
<1> SUFFICES ASSUME NEW a \in 1 .. n + 1, NEW b \in 1 .. n + 1
             PROVE  (a <= b => f[a] <= f[b]) /\ (f[a] = f[b] => a = b)
  OBVIOUS
<1>1. f[a] \in Nat /\ f[b] \in Nat /\ a \in Int /\ b \in Int
  OBVIOUS
<1>2. (a < b => f[a] < f[b]) /\ (b < a => f[b] < f[a])
  OBVIOUS
<1> QED
  BY <1>1, <1>2

(* What the layout of a segment gives.                                     *)
LEMMA SegmentFacts ==
  ASSUME NEW s, IsSegment(s), NEW n, n = Len(s.notes)
  PROVE  /\ n \in Nat /\ DOMAIN s.notes = 1 .. n
         /\ \A a \in 1 .. n + 1 : s.start[a] \in Nat
         /\ \A a, b \in 1 .. n + 1 :
              (a <= b => s.start[a] <= s.start[b]) /\ (s.start[a] = s.start[b] => a = b)
         /\ s.filesz \in Nat /\ s.start[n + 1] - s.filesz \in 0 .. 3
         /\ \A j \in 1 .. n :
              IsNote(s.notes[j]) /\ Stride(s.notes[j], s.start[j + 1] - s.start[j])
<1>1. /\ n \in Nat /\ DOMAIN s.notes = 1 .. n /\ s.start \in [1 .. n + 1 -> Nat]
      /\ \A a, b \in DOMAIN s.start : a < b => s.start[a] < s.start[b]
      /\ s.filesz \in Nat /\ Slack(s) \in 0 .. 3
      /\ \A j \in 1 .. n :
           IsNote(s.notes[j]) /\ Stride(s.notes[j], s.start[j + 1] - s.start[j])
  BY DEF IsSegment
<1> DEFINE f == s.start
<1>2. f \in [1 .. n + 1 -> Nat] /\ DOMAIN f = 1 .. n + 1
  BY <1>1
<1>3. \A a, b \in 1 .. n + 1 : a < b => f[a] < f[b]
  BY <1>1, <1>2
<1>4. s.start[n + 1] - s.filesz \in 0 .. 3
  BY <1>1 DEF Slack
<1> HIDE DEF f
<1>5. \A a, b \in 1 .. n + 1 :
        (a <= b => f[a] <= f[b]) /\ (f[a] = f[b] => a = b)
  BY <1>1, <1>2, <1>3, Increasing, Zenon
<1>6. \A a \in 1 .. n + 1 : f[a] \in Nat
  BY <1>2
<1>7. \A a \in 1 .. n + 1 : s.start[a] \in Nat
  BY <1>6 DEF f
<1>8. \A a, b \in 1 .. n + 1 :
        (a <= b => s.start[a] <= s.start[b]) /\ (s.start[a] = s.start[b] => a = b)
  BY <1>5, Zenon DEF f
<1>9. /\ n \in Nat /\ DOMAIN s.notes = 1 .. n /\ s.filesz \in Nat
      /\ \A j \in 1 .. n :
           IsNote(s.notes[j]) /\ Stride(s.notes[j], s.start[j + 1] - s.start[j])
  BY <1>1
<1> QED
  BY <1>4, <1>7, <1>8, <1>9

(* Every process of the specification is.                                  *)
LEMMA Layout == ASSUME NEW p \in Image PROVE Laid(p)
BY ImageAssumption DEF Laid

(* The notes of a segment have consecutive numbers.                        *)
LEMMA NoteNumbers ==
  ASSUME NEW p, Laid(p), NEW o \in DOMAIN p, NEW g \in DOMAIN p[o].segs
  PROVE  /\ o \in Nat /\ o >= 1 /\ g \in Nat /\ g >= 1
         /\ Len(p[o].segs[g].notes) \in Nat
         /\ DOMAIN p[o].segs[g].notes = 1 .. Len(p[o].segs[g].notes)
         /\ IsSegment(p[o].segs[g])
BY DEF Laid, IsSegment

-----------------------------------------------------------------------------
(* The order of the search.                                                *)

(* Past a note that is not a build id.                                     *)
LEMMA AfterNote ==
  ASSUME NEW p, Laid(p), NEW o \in DOMAIN p, NEW g \in DOMAIN p[o].segs,
         NEW i \in DOMAIN p[o].segs[g].notes,
         NoneBefore(p, o, g, i), ~Candidate(p, o, g, i)
  PROVE  NoneBefore(p, o, g, i + 1)
BY NoteNumbers DEF NoneBefore, Before

(* Past the end of a segment whose remaining notes are no build ids.       *)
LEMMA AfterSegment ==
  ASSUME NEW p, Laid(p), NEW o \in DOMAIN p, NEW g \in DOMAIN p[o].segs,
         NEW i \in Nat, NoneBefore(p, o, g, i),
         \A j \in DOMAIN p[o].segs[g].notes : j >= i => ~Candidate(p, o, g, j)
  PROVE  NoneBefore(p, o, g + 1, 1)
<1> SUFFICES ASSUME NEW o1 \in DOMAIN p, NEW g1 \in DOMAIN p[o1].segs,
                    NEW j \in DOMAIN p[o1].segs[g1].notes,
                    Candidate(p, o1, g1, j), Before(o1, g1, j, o, g + 1, 1)
             PROVE  FALSE
  BY DEF NoneBefore
<1>1. /\ o1 \in Nat /\ g1 \in Nat /\ j \in Nat /\ j >= 1 /\ o \in Nat /\ g \in Nat
  BY NoteNumbers
<1>2. ~Before(o1, g1, j, o, g, i)
  BY DEF NoneBefore
<1>3. o1 = o /\ g1 = g /\ j >= i
  BY <1>1, <1>2 DEF Before
<1> QED
  BY <1>3

(* Past an object whose segments are done.                                 *)
LEMMA AfterObject ==
  ASSUME NEW p, Laid(p), NEW o \in DOMAIN p, NEW g \in Nat,
         g > Len(p[o].segs), NoneBefore(p, o, g, 1)
  PROVE  NoneBefore(p, o + 1, 1, 1)
<1> SUFFICES ASSUME NEW o1 \in DOMAIN p, NEW g1 \in DOMAIN p[o1].segs,
                    NEW j \in DOMAIN p[o1].segs[g1].notes,
                    Candidate(p, o1, g1, j), Before(o1, g1, j, o + 1, 1, 1)
             PROVE  FALSE
  BY DEF NoneBefore
<1>1. o1 \in Nat /\ g1 \in Nat /\ g1 >= 1 /\ j \in Nat /\ j >= 1
  BY NoteNumbers
<1>2. o \in Nat /\ Len(p[o].segs) \in Nat /\ (o1 = o => g1 <= Len(p[o].segs))
  BY DEF Laid
<1>3. ~Before(o1, g1, j, o, g, 1)
  BY DEF NoneBefore
<1> QED
  BY <1>1, <1>2, <1>3 DEF Before

(* Past an object that is not the program.                                 *)
LEMMA AfterOther ==
  ASSUME NEW p, Laid(p), NEW o \in DOMAIN p, p[o].name # Self,
         NoneBefore(p, o, 1, 1)
  PROVE  NoneBefore(p, o + 1, 1, 1)
<1> SUFFICES ASSUME NEW o1 \in DOMAIN p, NEW g1 \in DOMAIN p[o1].segs,
                    NEW j \in DOMAIN p[o1].segs[g1].notes,
                    Candidate(p, o1, g1, j), Before(o1, g1, j, o + 1, 1, 1)
             PROVE  FALSE
  BY DEF NoneBefore
<1>1. o1 \in Nat /\ g1 \in Nat /\ g1 >= 1 /\ j \in Nat /\ j >= 1 /\ o \in Nat
  <2>1. o \in Nat
    BY DEF Laid
  <2> QED
    BY <2>1, NoteNumbers
<1>2. o1 # o
  BY DEF Candidate
<1>3. ~Before(o1, g1, j, o, 1, 1)
  BY DEF NoneBefore
<1> QED
  BY <1>1, <1>2, <1>3 DEF Before

(* There is one first build id.                                            *)
LEMMA FirstUnique ==
  ASSUME NEW p, Laid(p), NEW n, FirstId(p, n)
  PROVE  /\ \A id : ProgramId(p, id) <=> n.desc = id
         /\ ~NoneBefore(p, Len(p) + 1, 1, 1)
<1>1. PICK o \in DOMAIN p : \E g \in DOMAIN p[o].segs :
        \E i \in DOMAIN p[o].segs[g].notes :
          /\ Candidate(p, o, g, i) /\ NoneBefore(p, o, g, i)
          /\ n = p[o].segs[g].notes[i]
  BY DEF FirstId
<1>2. PICK g \in DOMAIN p[o].segs : \E i \in DOMAIN p[o].segs[g].notes :
          /\ Candidate(p, o, g, i) /\ NoneBefore(p, o, g, i)
          /\ n = p[o].segs[g].notes[i]
  BY <1>1
<1>3. PICK i \in DOMAIN p[o].segs[g].notes :
          /\ Candidate(p, o, g, i) /\ NoneBefore(p, o, g, i)
          /\ n = p[o].segs[g].notes[i]
  BY <1>2
<1>4. o \in Nat /\ g \in Nat /\ i \in Nat /\ o <= Len(p) /\ Len(p) \in Nat
  <2>1. o \in Nat /\ o <= Len(p) /\ Len(p) \in Nat
    BY DEF Laid
  <2> QED
    BY <2>1, NoteNumbers
<1>5. ASSUME NEW o1 \in DOMAIN p, NEW g1 \in DOMAIN p[o1].segs,
             NEW i1 \in DOMAIN p[o1].segs[g1].notes,
             Candidate(p, o1, g1, i1), NoneBefore(p, o1, g1, i1)
      PROVE  o1 = o /\ g1 = g /\ i1 = i
  <2>1. o1 \in Nat /\ g1 \in Nat /\ i1 \in Nat
    BY NoteNumbers
  <2>2. ~Before(o1, g1, i1, o, g, i)
    BY <1>3, <1>5 DEF NoneBefore
  <2>3. ~Before(o, g, i, o1, g1, i1)
    BY <1>3, <1>5 DEF NoneBefore
  <2> QED
    BY <1>4, <2>1, <2>2, <2>3 DEF Before
<1>6. ASSUME NEW id PROVE ProgramId(p, id) <=> n.desc = id
  <2>1. ASSUME n.desc = id PROVE ProgramId(p, id)
    BY <1>3, <2>1 DEF ProgramId
  <2>2. ASSUME ProgramId(p, id) PROVE n.desc = id
    <3>1. PICK o1 \in DOMAIN p : \E g1 \in DOMAIN p[o1].segs :
            \E i1 \in DOMAIN p[o1].segs[g1].notes :
              /\ Candidate(p, o1, g1, i1) /\ NoneBefore(p, o1, g1, i1)
              /\ p[o1].segs[g1].notes[i1].desc = id
      BY <2>2 DEF ProgramId
    <3>2. PICK g1 \in DOMAIN p[o1].segs : \E i1 \in DOMAIN p[o1].segs[g1].notes :
              /\ Candidate(p, o1, g1, i1) /\ NoneBefore(p, o1, g1, i1)
              /\ p[o1].segs[g1].notes[i1].desc = id
      BY <3>1
    <3>3. PICK i1 \in DOMAIN p[o1].segs[g1].notes :
              /\ Candidate(p, o1, g1, i1) /\ NoneBefore(p, o1, g1, i1)
              /\ p[o1].segs[g1].notes[i1].desc = id
      BY <3>2
    <3> QED
      BY <1>3, <1>5, <3>3
  <2> QED
    BY <2>1, <2>2
<1>7. Before(o, g, i, Len(p) + 1, 1, 1)
  BY <1>4 DEF Before
<1> QED
  BY <1>3, <1>6, <1>7 DEF NoneBefore

(* Without a build id there is no id of the program.                       *)
LEMMA NoFirst ==
  ASSUME NEW p, Laid(p), NoneBefore(p, Len(p) + 1, 1, 1)
  PROVE  \A id : ~ProgramId(p, id)
<1> SUFFICES ASSUME NEW o \in DOMAIN p, NEW g \in DOMAIN p[o].segs,
                    NEW i \in DOMAIN p[o].segs[g].notes, Candidate(p, o, g, i)
             PROVE  FALSE
  BY DEF ProgramId
<1>1. o \in Nat /\ o <= Len(p) /\ Len(p) \in Nat
  BY DEF Laid
<1>2. Before(o, g, i, Len(p) + 1, 1, 1)
  BY <1>1 DEF Before
<1> QED
  BY <1>2 DEF NoneBefore

-----------------------------------------------------------------------------
(* The text of a build id.                                                 *)

(* The elements of a sequence are of its type.                             *)
LEMMA ElementType ==
  ASSUME NEW S, NEW s \in Seq(S), NEW i \in 1 .. Len(s)
  PROVE  s[i] \in S
OBVIOUS

(* Two build ids with the same text are the same.                          *)
LEMMA TextInjective ==
  ASSUME NEW a \in Seq(0 .. 255), NEW b \in Seq(0 .. 255), Text(a) = Text(b)
  PROVE  a = b
<1>1. Len(a) \in Nat /\ Len(b) \in Nat
  OBVIOUS
<1>2. DOMAIN Text(a) = 1 .. 2 * Len(a) /\ DOMAIN Text(b) = 1 .. 2 * Len(b)
  BY DEF Text
<1>3. 1 .. 2 * Len(a) = 1 .. 2 * Len(b)
  BY <1>2
<1>4. 2 * Len(a) = 2 * Len(b)
  <2>1. CASE Len(a) = 0
    <3>1. ~(1 \in 1 .. 2 * Len(b))
      BY <1>1, <1>3, <2>1
    <3> QED
      BY <1>1, <2>1, <3>1
  <2>2. CASE Len(a) > 0
    <3>1. 2 * Len(a) \in 1 .. 2 * Len(b)
      BY <1>1, <1>3, <2>2
    <3>2. Len(b) > 0
      BY <1>1, <3>1, <2>2
    <3>3. 2 * Len(b) \in 1 .. 2 * Len(a)
      BY <1>1, <1>3, <3>2
    <3> QED
      BY <1>1, <3>1, <3>3
  <2> QED
    BY <1>1, <2>1, <2>2
<1>5. Len(a) = Len(b)
  BY <1>1, <1>4
<1>6. ASSUME NEW i \in 1 .. Len(a)
      PROVE  a[i] = b[i]
  <2>1. a[i] \in 0 .. 255 /\ b[i] \in 0 .. 255
    BY <1>5, ElementType
  <2>2. /\ 2 * i - 1 \in 1 .. 2 * Len(a) /\ 2 * i \in 1 .. 2 * Len(a)
        /\ (2 * i - 1) % 2 = 1 /\ (2 * i) % 2 = 0
        /\ (2 * i - 1 + 1) \div 2 = i /\ (2 * i) \div 2 = i
    BY <1>1
  <2>3. Text(a)[2 * i - 1] = a[i] \div 16 /\ Text(a)[2 * i] = a[i] % 16
    BY <2>2 DEF Text
  <2>4. Text(b)[2 * i - 1] = b[i] \div 16 /\ Text(b)[2 * i] = b[i] % 16
    BY <2>2, <1>5 DEF Text
  <2>5. a[i] \div 16 = b[i] \div 16 /\ a[i] % 16 = b[i] % 16
    BY <2>3, <2>4
  <2>6. \A x \in 0 .. 255 : x = 16 * (x \div 16) + (x % 16)
    OBVIOUS
  <2> QED
    BY <2>1, <2>5, <2>6
<1> QED
  BY <1>5, <1>6

(* NGX_BUILD_ID is the text of the build id of the build.                  *)
LEMMA BuildText == NgxBuildId = Text(NgxBuild)
<1>1. Len(NgxBuild) \in Nat
  BY BuildAssumption
<1>2. ASSUME NEW j \in 1 .. 2 * Len(NgxBuild), j % 2 # 1
      PROVE  (j + 1) \div 2 = j \div 2
  BY <1>1, <1>2
<1> QED
  BY <1>1, <1>2 DEF NgxBuildId, Text

-----------------------------------------------------------------------------
(* The invariant.                                                          *)

(* What the properties of load_ffi speak of.                               *)
Outside ==
  /\ CheckCorrect /\ ResolvedMatches /\ UncheckedAfterFailure
  /\ Refused /\ SearchOpen

(* A step of the search leaves it alone.                                   *)
LEMMA SearchKeeps ==
  ASSUME Outside, pc # "lua", pc' # "lua",
         UNCHANGED <<img, builtin, init, open, resolved, ret, failed>>
  PROVE  Outside'
BY DEF Outside, CheckCorrect, ResolvedMatches, UncheckedAfterFailure, Refused,
   SearchOpen

(* The invariant holds initially.                                          *)
LEMMA ScanInitInv == Init => ScanInv
<1> SUFFICES ASSUME Init PROVE ScanInv
  OBVIOUS
<1>1. ScanType
  <2>1. Len(img) \in Nat
    BY Layout DEF Init, Laid
  <2>2. obj \in 1 .. Len(img) + 1 /\ seg \in Nat /\ pos \in Nat /\ len \in Int
    BY <2>1 DEF Init
  <2>3. ret \in {None, 0, -1, -2}
    BY DEF Init
  <2> QED
    BY <2>2, <2>3, Zenon DEF Init, ScanType, BuildIdTypeOK
<1> QED
  BY <1>1 DEF Init, ScanInv, ObjectPlace, SegmentPlace, NotePlace, ComparePlace,
     CheckCorrect, NoWildRead, ResolvedMatches, UncheckedAfterFailure, Refused,
     SearchOpen

(* The last object was searched.                                           *)
LEMMA SearchEndsKeeps == ASSUME ScanInv, SearchEnds PROVE ScanInv'
<1>1. Laid(img)
  BY Layout DEF ScanInv, ScanType
<1>2. ScanType'
  BY DEF ScanInv, ScanType, BuildIdTypeOK, SearchEnds, scan
<1>3. ComparePlace'
  <2>1. obj = Len(img) + 1
    BY <1>1 DEF ScanInv, ScanType, BuildIdTypeOK, SearchEnds, Laid
  <2> QED
    BY <2>1 DEF ScanInv, ObjectPlace, ComparePlace, SearchEnds, scan
<1>4. Outside'
  BY SearchKeeps DEF ScanInv, Outside, SearchEnds
<1> QED
  BY <1>2, <1>3, <1>4 DEF ScanInv, Outside, SearchEnds, ObjectPlace,
     SegmentPlace, NotePlace, NoWildRead

(* An object that is not the program.                                      *)
LEMMA SkipObjectKeeps == ASSUME ScanInv, SkipObject PROVE ScanInv'
<1>1. Laid(img)
  BY Layout DEF ScanInv, ScanType
<1>2. obj \in DOMAIN img
  BY <1>1 DEF ScanInv, ScanType, BuildIdTypeOK, SkipObject, Laid
<1>3. ScanType'
  BY <1>1 DEF ScanInv, ScanType, BuildIdTypeOK, SkipObject, Laid
<1>4. ObjectPlace'
  BY <1>1, <1>2, AfterOther DEF ScanInv, ObjectPlace, SkipObject
<1>5. Outside'
  BY SearchKeeps DEF ScanInv, Outside, SkipObject
<1> QED
  BY <1>3, <1>4, <1>5 DEF ScanInv, Outside, SkipObject, ComparePlace,
     SegmentPlace, NotePlace, NoWildRead

(* The program is found among the objects.                                 *)
LEMMA EnterObjectKeeps == ASSUME ScanInv, EnterObject PROVE ScanInv'
<1>1. Laid(img)
  BY Layout DEF ScanInv, ScanType
<1>2. obj \in DOMAIN img
  BY <1>1 DEF ScanInv, ScanType, BuildIdTypeOK, EnterObject, Laid
<1>3. ScanType'
  BY DEF ScanInv, ScanType, BuildIdTypeOK, EnterObject
<1>4. SegmentPlace'
  <2>1. 1 \in 1 .. Len(img[obj].segs) + 1
    BY <1>1, <1>2 DEF Laid
  <2> QED
    BY <1>2, <2>1 DEF ScanInv, ObjectPlace, SegmentPlace, InProgram, EnterObject, Segs
<1>5. Outside'
  BY SearchKeeps DEF ScanInv, Outside, EnterObject
<1> QED
  BY <1>3, <1>4, <1>5 DEF ScanInv, Outside, EnterObject, ComparePlace,
     ObjectPlace, NotePlace, NoWildRead

(* The last segment of the program was searched.                           *)
LEMMA LeaveObjectKeeps == ASSUME ScanInv, LeaveObject PROVE ScanInv'
<1>1. Laid(img)
  BY Layout DEF ScanInv, ScanType
<1>2. obj \in DOMAIN img /\ note = None /\ NoneBefore(img, obj, seg, 1)
  BY DEF ScanInv, SegmentPlace, InProgram, LeaveObject
<1>3. ScanType'
  BY <1>1, <1>2 DEF ScanInv, ScanType, BuildIdTypeOK, LeaveObject, Laid
<1>4. ObjectPlace'
  <2>1. seg \in Nat /\ seg > Len(img[obj].segs)
    BY DEF ScanInv, ScanType, BuildIdTypeOK, LeaveObject, Segs
  <2> QED
    BY <1>1, <1>2, <2>1, AfterObject DEF ObjectPlace, LeaveObject
<1>5. Outside'
  BY SearchKeeps DEF ScanInv, Outside, LeaveObject
<1> QED
  BY <1>3, <1>4, <1>5 DEF ScanInv, Outside, LeaveObject, ComparePlace,
     SegmentPlace, NotePlace, NoWildRead

(* A segment that holds no notes.                                          *)
LEMMA SkipSegmentKeeps == ASSUME ScanInv, SkipSegment PROVE ScanInv'
<1>1. Laid(img)
  BY Layout DEF ScanInv, ScanType
<1>2. /\ InProgram /\ NoneBefore(img, obj, seg, 1)
      /\ seg \in 1 .. Len(Segs) + 1 /\ seg <= Len(Segs)
  BY DEF ScanInv, SegmentPlace, SkipSegment
<1>3. /\ Len(Segs) \in Nat /\ seg \in DOMAIN Segs
  BY <1>1, <1>2 DEF Laid, InProgram, Segs
<1>4. ScanType'
  BY DEF ScanInv, ScanType, BuildIdTypeOK, SkipSegment
<1>5. SegmentPlace'
  <2>1. NoneBefore(img, obj, seg + 1, 1)
    BY <1>1, <1>2, <1>3, AfterSegment
    DEF SkipSegment, Candidate, InProgram, Segs
  <2> QED
    BY <1>2, <1>3, <2>1 DEF SegmentPlace, InProgram, SkipSegment, Segs
<1>6. Outside'
  BY SearchKeeps DEF ScanInv, Outside, SkipSegment
<1> QED
  BY <1>4, <1>5, <1>6 DEF ScanInv, Outside, SkipSegment, ComparePlace,
     ObjectPlace, NotePlace, NoWildRead

(* A segment of notes.                                                     *)
LEMMA EnterSegmentKeeps == ASSUME ScanInv, EnterSegment PROVE ScanInv'
<1>1. Laid(img)
  BY Layout DEF ScanInv, ScanType
<1>2. /\ InProgram /\ NoneBefore(img, obj, seg, 1)
      /\ seg \in 1 .. Len(Segs) + 1 /\ seg <= Len(Segs)
  BY DEF ScanInv, SegmentPlace, EnterSegment
<1>3. seg \in DOMAIN Segs /\ IsSegment(Segs[seg])
  BY <1>1, <1>2 DEF Laid, InProgram, Segs
<1>4. /\ Segs[seg].start[1] = 0 /\ Segs[seg].filesz \in Nat
      /\ Len(Segs[seg].notes) \in Nat
  BY <1>3 DEF IsSegment
<1>5. ScanType'
  BY <1>4 DEF ScanInv, ScanType, BuildIdTypeOK, EnterSegment
<1>6. NotePlace'
  <2>1. Segs' = Segs
    BY DEF Segs, EnterSegment
  <2>2. AtNote(1)'
    BY <1>2, <1>4, <2>1 DEF AtNote, EnterSegment
  <2>3. InProgram'
    BY <1>2 DEF InProgram, EnterSegment
  <2> QED
    BY <1>3, <1>4, <2>1, <2>2, <2>3 DEF NotePlace, EnterSegment
<1>7. Outside'
  BY SearchKeeps DEF ScanInv, Outside, EnterSegment
<1> QED
  BY <1>5, <1>6, <1>7 DEF ScanInv, Outside, EnterSegment, ComparePlace,
     ObjectPlace, SegmentPlace, NoWildRead

(* What the search knows when it is among the notes.                       *)
LEMMA AmongNotes ==
  ASSUME ScanInv, pc = "note"
  PROVE  /\ Laid(img) /\ obj \in DOMAIN img /\ img[obj].name = Self /\ note = None
         /\ Segs = img[obj].segs /\ Notes = Segs[seg].notes
         /\ seg \in DOMAIN Segs /\ seg \in Nat /\ Segs[seg].ptNote
         /\ IsSegment(Segs[seg])
         /\ len = Segs[seg].filesz - pos
         /\ \E i \in 1 .. Len(Notes) + 1 :
              pos = Segs[seg].start[i] /\ NoneBefore(img, obj, seg, i)
<1>1. Laid(img)
  BY Layout DEF ScanInv, ScanType
<1>2. NotePlace /\ seg \in Nat
  BY DEF ScanInv, ScanType, BuildIdTypeOK
<1>3. obj \in DOMAIN img /\ seg \in DOMAIN Segs
  BY <1>2 DEF NotePlace, InProgram
<1>4. IsSegment(Segs[seg])
  BY <1>1, <1>3 DEF Laid, Segs
<1> QED
  BY <1>1, <1>2, <1>3, <1>4 DEF NotePlace, InProgram, AtNote, Segs, Notes

(* No build id lies in the bytes that are too few for a note.              *)
LEMMA LeaveSegmentKeeps == ASSUME ScanInv, LeaveSegment PROVE ScanInv'
<1>1. pc = "note" /\ ~More(len)
  BY DEF LeaveSegment
<1>2. PICK i \in 1 .. Len(Notes) + 1 :
        pos = Segs[seg].start[i] /\ NoneBefore(img, obj, seg, i)
  BY <1>1, AmongNotes
<1>3. ASSUME NEW j \in DOMAIN Notes, j >= i
      PROVE  ~Candidate(img, obj, seg, j)
  <2>1. IsSegment(Segs[seg]) /\ len = Segs[seg].filesz - pos /\ Notes = Segs[seg].notes
    BY <1>1, AmongNotes
  <2> DEFINE s == Segs[seg]
             n == Len(s.notes)
  <2>2. s.notes[j] = img[obj].segs[seg].notes[j]
    BY DEF Segs
  <2> HIDE DEF s, n
  <2>3. /\ IsSegment(s) /\ len = s.filesz - pos /\ n = Len(s.notes)
        /\ j \in DOMAIN s.notes /\ i \in 1 .. n + 1 /\ pos = s.start[i]
    BY <1>2, <2>1 DEF s, n
  <2>4. /\ n \in Nat /\ j \in 1 .. n
        /\ \A a \in 1 .. n + 1 : s.start[a] \in Nat
        /\ \A a, b \in 1 .. n + 1 : a <= b => s.start[a] <= s.start[b]
        /\ s.filesz \in Nat /\ s.start[n + 1] - s.filesz \in 0 .. 3
        /\ IsNote(s.notes[j]) /\ Stride(s.notes[j], s.start[j + 1] - s.start[j])
    BY <2>3, SegmentFacts
  <2>5. /\ j + 1 \in 1 .. n + 1 /\ n + 1 \in 1 .. n + 1 /\ j \in 1 .. n + 1
        /\ j + 1 <= n + 1
    BY <2>4
  <2>6. /\ s.start[i] \in Nat /\ s.start[j] \in Nat /\ s.start[j + 1] \in Nat
        /\ s.start[n + 1] \in Nat
        /\ s.start[i] <= s.start[j] /\ s.start[j + 1] <= s.start[n + 1]
    BY <1>3, <2>3, <2>4, <2>5
  <2> SUFFICES ASSUME Candidate(img, obj, seg, j) PROVE FALSE
    OBVIOUS
  <2>7. s.notes[j].namesz = 4 /\ Len(s.notes[j].desc) > 0
    BY <2>2 DEF Candidate
  <2>8. s.start[j + 1] - s.start[j] \in Int
    BY <2>6
  <2>9. s.start[j + 1] - s.start[j] >= 20
    BY <2>4, <2>7, <2>8, IdStride
  <2>10. len >= 17 /\ len \in Int
    <3>1. /\ s.filesz \in Nat /\ s.start[n + 1] - s.filesz \in 0 .. 3
          /\ len = s.filesz - s.start[i]
      BY <2>3, <2>4
    <3> DEFINE a == s.start[i]
               b == s.start[j]
               c == s.start[j + 1]
               d == s.start[n + 1]
               f == s.filesz
    <3>2. /\ a \in Nat /\ b \in Nat /\ c \in Nat /\ d \in Nat /\ f \in Nat
          /\ a <= b /\ c - b >= 20 /\ c <= d /\ d - f \in 0 .. 3 /\ len = f - a
      BY <2>6, <2>9, <3>1, Zenon
    <3> HIDE DEF a, b, c, d, f
    <3> QED
      BY <3>2
  <2> QED
    BY <1>1, <2>10 DEF More, NoteStruct
<1>4. NoneBefore(img, obj, seg + 1, 1)
  <2>1. /\ Laid(img) /\ obj \in DOMAIN img /\ seg \in DOMAIN img[obj].segs
        /\ Notes = img[obj].segs[seg].notes
    BY <1>1, AmongNotes
  <2>2. Len(Notes) \in Nat
    BY <2>1, NoteNumbers
  <2> HIDE DEF Notes
  <2> QED
    BY <1>2, <1>3, <2>1, <2>2, AfterSegment
<1>5. ScanType'
  BY DEF ScanInv, ScanType, BuildIdTypeOK, LeaveSegment
<1>6. SegmentPlace'
  <2>1. /\ InProgram /\ seg \in DOMAIN Segs /\ Laid(img) /\ obj \in DOMAIN img
        /\ Segs = img[obj].segs
    BY <1>1, AmongNotes DEF InProgram
  <2>2. seg + 1 \in 1 .. Len(Segs) + 1
    BY <2>1 DEF Laid
  <2> QED
    BY <1>4, <2>1, <2>2 DEF SegmentPlace, InProgram, LeaveSegment, Segs
<1>7. Outside'
  BY SearchKeeps DEF ScanInv, Outside, LeaveSegment
<1> QED
  BY <1>5, <1>6, <1>7 DEF ScanInv, Outside, LeaveSegment, ComparePlace,
     ObjectPlace, NotePlace, NoWildRead

(* The note the pointer is at is the one the invariant knows.              *)
LEMMA HereUnique ==
  ASSUME ScanInv, pc = "note", NEW i \in Here
  PROVE  /\ i \in DOMAIN Notes /\ i \in Nat /\ i + 1 \in 1 .. Len(Notes) + 1
         /\ NoneBefore(img, obj, seg, i)
         /\ IsNote(Notes[i])
         /\ Size(Notes[i]) \in Nat
         /\ pos + Size(Notes[i]) = Segs[seg].start[i + 1]
<1>1. IsSegment(Segs[seg]) /\ Notes = Segs[seg].notes /\ pos \in Nat
  BY AmongNotes DEF ScanInv, ScanType, BuildIdTypeOK
<1> DEFINE s == Segs[seg]
           n == Len(s.notes)
<1>2. PICK j \in 1 .. n + 1 : pos = s.start[j] /\ NoneBefore(img, obj, seg, j)
  BY <1>1, AmongNotes
<1>3. i \in DOMAIN s.notes /\ pos = s.start[i]
  BY <1>1 DEF Here
<1> HIDE DEF s, n
<1>4. IsSegment(s) /\ n = Len(s.notes)
  BY <1>1 DEF s, n
<1>5. /\ n \in Nat /\ i \in 1 .. n
      /\ \A a \in 1 .. n + 1 : s.start[a] \in Nat
      /\ \A a, b \in 1 .. n + 1 : s.start[a] = s.start[b] => a = b
      /\ IsNote(s.notes[i]) /\ Stride(s.notes[i], s.start[i + 1] - s.start[i])
  BY <1>3, <1>4, SegmentFacts
<1>6. i \in 1 .. n + 1 /\ i + 1 \in 1 .. n + 1
  BY <1>5
<1>7. i = j
  BY <1>2, <1>3, <1>5, <1>6
<1>8. /\ s.start[i + 1] - s.start[i] \in Int /\ s.start[i + 1] \in Nat
      /\ s.start[i] \in Nat
  BY <1>5, <1>6
<1>9. s.start[i + 1] - s.start[i] = Size(s.notes[i]) /\ Size(s.notes[i]) \in Nat
  BY <1>5, <1>8, StrideIsSize
<1>10. pos + Size(s.notes[i]) = s.start[i + 1]
  BY <1>3, <1>8, <1>9
<1> QED
  BY <1>1, <1>2, <1>3, <1>4, <1>5, <1>6, <1>7, <1>9, <1>10 DEF s, n

(* IsBuildId tells the notes the reference definition means.               *)
LEMMA IsBuildIdRight ==
  ASSUME NEW p, NEW o, NEW g, NEW i, p[o].name = Self, p[o].segs[g].ptNote,
         IsNote(p[o].segs[g].notes[i])
  PROVE  IsBuildId(p[o].segs[g].notes[i]) <=> Candidate(p, o, g, i)
<1> DEFINE d == p[o].segs[g].notes[i].desc
<1>1. d \in Seq(0 .. 255)
  BY DEF IsNote
<1>2. d # <<>> <=> Len(d) > 0
  BY <1>1, EmptyLen
<1> QED
  BY <1>2 DEF IsBuildId, Candidate

(* The build id is found.                                                  *)
LEMMA FoundNoteKeeps == ASSUME ScanInv, FoundNote PROVE ScanInv'
<1>1. pc = "note"
  BY DEF FoundNote
<1>2. PICK i \in Here : IsBuildId(Notes[i]) /\ note' = Notes[i]
  BY DEF FoundNote
<1>3. i \in DOMAIN Notes /\ NoneBefore(img, obj, seg, i) /\ IsNote(Notes[i])
  BY <1>1, HereUnique
<1>4. /\ obj \in DOMAIN img /\ img[obj].name = Self /\ seg \in DOMAIN img[obj].segs
      /\ img[obj].segs[seg].ptNote /\ Notes = img[obj].segs[seg].notes /\ img \in Image
  BY <1>1, AmongNotes DEF ScanInv, ScanType
<1>5. Candidate(img, obj, seg, i)
  BY <1>2, <1>3, <1>4, IsBuildIdRight
<1>6. FirstId(img, note')
  BY <1>2, <1>3, <1>4, <1>5 DEF FirstId
<1>7. note' # None
  BY <1>2, <1>3, <1>4, NoteAssumption
<1>8. ScanType'
  BY DEF ScanInv, ScanType, BuildIdTypeOK, FoundNote
<1>9. ComparePlace'
  BY <1>6, <1>7 DEF ComparePlace, FoundNote
<1>10. Outside'
  BY SearchKeeps DEF ScanInv, Outside, FoundNote
<1> QED
  BY <1>8, <1>9, <1>10 DEF ScanInv, Outside, FoundNote, SegmentPlace,
     ObjectPlace, NotePlace, NoWildRead

(* The pointer goes to the next note.                                      *)
LEMMA SkipNoteKeeps == ASSUME ScanInv, SkipNote PROVE ScanInv'
<1>1. pc = "note"
  BY DEF SkipNote
<1>2. PICK i \in Here : /\ ~IsBuildId(Notes[i])
                       /\ pos' = pos + Size(Notes[i])
                       /\ len' = len - Size(Notes[i])
  BY DEF SkipNote
<1>3. /\ i \in DOMAIN Notes /\ i + 1 \in 1 .. Len(Notes) + 1
      /\ NoneBefore(img, obj, seg, i) /\ IsNote(Notes[i])
      /\ Size(Notes[i]) \in Nat /\ pos + Size(Notes[i]) = Segs[seg].start[i + 1]
  BY <1>1, HereUnique
<1>4. /\ Laid(img) /\ obj \in DOMAIN img /\ img[obj].name = Self
      /\ seg \in DOMAIN img[obj].segs /\ img[obj].segs[seg].ptNote
      /\ Notes = img[obj].segs[seg].notes /\ Segs = img[obj].segs
      /\ len = Segs[seg].filesz - pos /\ InProgram /\ IsSegment(Segs[seg])
  BY <1>1, AmongNotes DEF InProgram
<1>5. ~Candidate(img, obj, seg, i)
  BY <1>2, <1>3, <1>4, IsBuildIdRight
<1>6. NoneBefore(img, obj, seg, i + 1)
  BY <1>3, <1>4, <1>5, AfterNote
<1>7. pos \in Nat /\ len \in Int /\ Segs[seg].filesz \in Nat
  BY <1>4 DEF ScanInv, ScanType, BuildIdTypeOK, IsSegment
<1>8. ScanType'
  BY <1>2, <1>3, <1>7 DEF ScanInv, ScanType, BuildIdTypeOK, SkipNote
<1>9. NotePlace'
  <2>1. Segs' = Segs /\ InProgram' /\ pc' = pc /\ seg' = seg /\ obj' = obj /\ img' = img
    BY <1>4 DEF Segs, InProgram, SkipNote
  <2>2. AtNote(i + 1)'
    BY <1>2, <1>3, <1>4, <1>6, <2>1 DEF AtNote
  <2>3. len' = Segs[seg].filesz - pos'
    BY <1>2, <1>3, <1>4, <1>7
  <2> QED
    BY <1>3, <1>4, <2>1, <2>2, <2>3 DEF NotePlace
<1>10. Outside'
  BY <1>1, SearchKeeps DEF ScanInv, Outside, SkipNote
<1> QED
  BY <1>1, <1>8, <1>9, <1>10 DEF ScanInv, Outside, SkipNote, SegmentPlace,
     ObjectPlace, ComparePlace, NoWildRead

(* The pointer has left the segment: its last padding is not in the file.  *)
LEMMA WildReadKeeps == ASSUME ScanInv, WildRead PROVE ScanInv'
<1>1. pc = "note" /\ More(len) /\ Here = {}
  BY DEF WildRead
<1> DEFINE s == Segs[seg]
           n == Len(s.notes)
<1>2. PICK i \in 1 .. n + 1 : pos = s.start[i]
  BY <1>1, AmongNotes
<1>3. IsSegment(s) /\ Notes = s.notes /\ len = s.filesz - pos
  BY <1>1, AmongNotes
<1>4. \A j \in DOMAIN s.notes : s.start[j] # pos
  BY <1>1, <1>3 DEF Here
<1> HIDE DEF s, n
<1>5. /\ n \in Nat /\ DOMAIN s.notes = 1 .. n /\ s.filesz \in Nat
      /\ s.start[n + 1] - s.filesz \in 0 .. 3 /\ s.start[n + 1] \in Nat
  <2>1. n = Len(s.notes)
    BY DEF n
  <2>2. /\ n \in Nat /\ DOMAIN s.notes = 1 .. n /\ s.filesz \in Nat
        /\ s.start[n + 1] - s.filesz \in 0 .. 3
        /\ \A a \in 1 .. n + 1 : s.start[a] \in Nat
    BY <1>3, <2>1, SegmentFacts
  <2> QED
    BY <2>2
<1>6. pos = s.start[n + 1] /\ Slack(s) > 0
  <2>1. i = n + 1
    BY <1>2, <1>4, <1>5
  <2>2. s.start[n + 1] - s.filesz > 0
    BY <1>1, <1>2, <1>3, <1>5, <2>1 DEF More, NoteStruct
  <2> QED
    BY <1>2, <2>1, <2>2 DEF Slack, n
<1>7. NoWildRead'
  BY <1>6 DEF NoWildRead, WildRead, Segs, Notes, Slack, scan, s, n
<1>8. ScanType'
  BY DEF ScanInv, ScanType, BuildIdTypeOK, WildRead, scan
<1>9. Outside'
  BY SearchKeeps DEF ScanInv, Outside, WildRead
<1> QED
  BY <1>7, <1>8, <1>9 DEF ScanInv, Outside, WildRead, SegmentPlace,
     ObjectPlace, ComparePlace, NotePlace

(* The end of the check.                                                   *)
LEMMA CompareKeeps == ASSUME ScanInv, Compare PROVE ScanInv'
<1>1. Laid(img) /\ img' = img /\ pc = "compare"
  BY Layout DEF ScanInv, ScanType, Compare
<1>2. /\ ret' \in {0, -1, -2}
      /\ ret' = 0 <=> ProgramId(img, NgxBuild)
      /\ ret' = -1 <=> NoneBefore(img, Len(img) + 1, 1, 1)
  <2>1. CASE note = None
    <3>1. NoneBefore(img, Len(img) + 1, 1, 1)
      BY <1>1, <2>1 DEF ScanInv, ComparePlace
    <3>2. ret' = -1 /\ ~ProgramId(img, NgxBuild)
      BY <1>1, <2>1, <3>1, NoFirst DEF Compare
    <3> QED
      BY <3>1, <3>2
  <2>2. CASE note # None
    <3>1. FirstId(img, note)
      BY <1>1, <2>2 DEF ScanInv, ComparePlace
    <3>2. ~NoneBefore(img, Len(img) + 1, 1, 1) /\ (ProgramId(img, NgxBuild) <=> note.desc = NgxBuild)
      BY <1>1, <3>1, FirstUnique
    <3>3. note.desc \in Seq(0 .. 255)
      <4>1. PICK o \in DOMAIN img : \E g \in DOMAIN img[o].segs :
              \E i \in DOMAIN img[o].segs[g].notes : note = img[o].segs[g].notes[i]
        BY <3>1 DEF FirstId
      <4>2. PICK g \in DOMAIN img[o].segs :
              \E i \in DOMAIN img[o].segs[g].notes : note = img[o].segs[g].notes[i]
        BY <4>1
      <4>3. IsSegment(img[o].segs[g])
        BY <1>1, NoteNumbers
      <4> QED
        BY <4>2, <4>3 DEF IsSegment, IsNote
    <3>4. Text(note.desc) = NgxBuildId <=> note.desc = NgxBuild
      BY <3>3, BuildText, BuildAssumption, TextInjective
    <3>5. ret' = IF note.desc = NgxBuild THEN 0 ELSE -2
      BY <2>2, <3>4 DEF Compare
    <3> QED
      BY <3>2, <3>5
  <2> QED
    BY <2>1, <2>2
<1>3. open
  BY <1>1 DEF ScanInv, SearchOpen
<1>4. ScanType'
  BY <1>2 DEF ScanInv, ScanType, BuildIdTypeOK, Compare, scan
<1>5. CheckCorrect'
  BY <1>1, <1>2 DEF CheckCorrect
<1>6. /\ ResolvedMatches' /\ UncheckedAfterFailure' /\ Refused' /\ SearchOpen'
  BY <1>1, <1>2, <1>3 DEF ResolvedMatches, UncheckedAfterFailure, Refused, Compare, SearchOpen
<1> QED
  BY <1>4, <1>5, <1>6 DEF ScanInv, Compare, SegmentPlace,
     ObjectPlace, ComparePlace, NotePlace, NoWildRead

(* load_ffi finds the symbols.                                             *)
LEMMA LoadFoundKeeps == ASSUME ScanInv, LoadFound PROVE ScanInv'
<1>1. ScanType'
  BY DEF ScanInv, ScanType, BuildIdTypeOK, LoadFound, scan
<1>2. pc = "lua" /\ UNCHANGED <<img, builtin, open, resolved, pc, ret, failed>>
  BY DEF LoadFound
<1>3. CheckCorrect' /\ ResolvedMatches' /\ Refused'
  BY <1>2 DEF ScanInv, CheckCorrect, ResolvedMatches, Refused
<1>4. UncheckedAfterFailure'
  BY <1>2 DEF ScanInv, ScanType, BuildIdTypeOK, Refused, UncheckedAfterFailure, LoadFound
<1> QED
  BY <1>1, <1>2, <1>3, <1>4 DEF ScanInv, SegmentPlace, ObjectPlace, ComparePlace,
     NotePlace, NoWildRead, SearchOpen

(* load_ffi opens the library and calls lua_resty_ffi_init.                *)
LEMMA LoadOpensKeeps == ASSUME ScanInv, LoadOpens PROVE ScanInv'
<1>1. Laid(img)
  BY Layout DEF ScanInv, ScanType
<1>2. NoneBefore(img, 1, 1, 1)
  <2> SUFFICES ASSUME NEW o \in DOMAIN img, NEW g \in DOMAIN img[o].segs,
                      NEW i \in DOMAIN img[o].segs[g].notes
               PROVE  ~Before(o, g, i, 1, 1, 1)
    BY DEF NoneBefore
  <2>1. o \in Nat /\ o >= 1 /\ g \in Nat /\ g >= 1 /\ i \in Nat /\ i >= 1
    BY <1>1, NoteNumbers
  <2> QED
    BY <2>1 DEF Before
<1>3. ScanType'
  <2>1. 1 \in 1 .. Len(img) + 1
    BY <1>1 DEF Laid
  <2> QED
    BY <2>1 DEF ScanInv, ScanType, BuildIdTypeOK, LoadOpens
<1>4. ObjectPlace'
  BY <1>2 DEF ObjectPlace, LoadOpens
<1>5. Outside' /\ SearchOpen'
  BY DEF ScanInv, Outside, CheckCorrect, ResolvedMatches, UncheckedAfterFailure,
     Refused, LoadOpens, SearchOpen
<1> QED
  BY <1>3, <1>4, <1>5 DEF ScanInv, Outside, LoadOpens, SegmentPlace, ComparePlace,
     NotePlace, NoWildRead

(* The collector closes a library that was refused.                        *)
LEMMA CloseRefusedKeeps == ASSUME ScanInv, CloseRefused PROVE ScanInv'
<1>1. ScanType'
  BY DEF ScanInv, ScanType, BuildIdTypeOK, CloseRefused, scan
<1> QED
  BY <1>1 DEF ScanInv, CloseRefused, CheckCorrect, ResolvedMatches, Refused,
     UncheckedAfterFailure, SegmentPlace, ObjectPlace, ComparePlace, NotePlace,
     NoWildRead, SearchOpen

(* Every step keeps the invariant.                                         *)
LEMMA ScanInvStep == ScanInv /\ [Next]_vars => ScanInv'
<1> SUFFICES ASSUME ScanInv, [Next]_vars PROVE ScanInv'
  OBVIOUS
<1>1. CASE UNCHANGED vars
  BY <1>1 DEF vars, scan, ScanInv, ScanType, BuildIdTypeOK, ObjectPlace,
     SegmentPlace, NotePlace, ComparePlace, InProgram, AtNote, Segs, Notes,
     CheckCorrect, NoWildRead, ResolvedMatches, UncheckedAfterFailure, Refused, SearchOpen
<1>2. CASE Next
  BY <1>2, SearchEndsKeeps, SkipObjectKeeps, EnterObjectKeeps, LeaveObjectKeeps,
     SkipSegmentKeeps, EnterSegmentKeeps, LeaveSegmentKeeps, FoundNoteKeeps,
     SkipNoteKeeps, WildReadKeeps, CompareKeeps, LoadFoundKeeps, LoadOpensKeeps,
     CloseRefusedKeeps
  DEF Next, Search
<1> QED
  BY <1>1, <1>2

(* The inductive invariant of the check holds.                             *)
THEOREM ScanInvariant == Spec => []ScanInv
BY ScanInitInv, ScanInvStep, PTL DEF Spec

(* The variables have their types.                                         *)
THEOREM BuildIdTypeCorrect == Spec => []BuildIdTypeOK
<1>1. ScanInv => BuildIdTypeOK
  BY DEF ScanInv, ScanType
<1> QED
  BY <1>1, ScanInvariant, PTL

(* lua_resty_ffi_init returns 0 for the right build only and -1 only when  *)
(* the program has no build id, whatever objects, segments and notes the   *)
(* process has and however long the ids are.                               *)
THEOREM CheckIsCorrect == Spec => []CheckCorrect
<1>1. ScanInv => CheckCorrect
  BY DEF ScanInv
<1> QED
  BY <1>1, ScanInvariant, PTL

(* The search reads past a segment only when its last padding is not in    *)
(* the file.                                                               *)
THEOREM ReadsInside == Spec => []NoWildRead
<1>1. ScanInv => NoWildRead
  BY DEF ScanInv
<1> QED
  BY <1>1, ScanInvariant, PTL

(* The pointers into nginx are set for the right build only.               *)
THEOREM ResolvedRight == Spec => []ResolvedMatches
<1>1. ScanInv => ResolvedMatches
  BY DEF ScanInv
<1> QED
  BY <1>1, ScanInvariant, PTL

(* The C part is used unchecked only after a failed load_ffi.              *)
THEOREM UncheckedOnlyAfterFailure == Spec => []UncheckedAfterFailure
<1>1. ScanInv => UncheckedAfterFailure
  BY DEF ScanInv
<1> QED
  BY <1>1, ScanInvariant, PTL

-----------------------------------------------------------------------------
(* The end of the search.                                                  *)

(* A note has a header, so the pointer moves.                              *)
LEMMA SizeAtLeast ==
  ASSUME NEW n, IsNote(n)
  PROVE  Size(n) >= Header
<1>1. n.namesz \in Nat /\ Len(n.desc) \in Nat
  BY DEF IsNote
<1>2. Align(n.namesz) \in Nat /\ Align(Len(n.desc)) \in Nat
  BY <1>1, AlignPads
<1> QED
  BY <1>2 DEF Size, Header

(* One step further: the next object, into an object, the next segment,    *)
(* into a segment, the next note, in this order of precedence; or the end. *)
Advances ==
  \/ obj' = obj + 1 /\ obj <= Len(img)
  \/ obj' = obj /\ pc = "object" /\ pc' = "segment"
  \/ obj' = obj /\ seg' = seg + 1 /\ seg <= Len(Segs) /\ pc' = "segment"
  \/ obj' = obj /\ seg' = seg /\ pc = "segment" /\ pc' = "note"
  \/ /\ obj' = obj /\ seg' = seg /\ pc = "note" /\ pc' = "note"
     /\ pos' > pos /\ \E i \in DOMAIN Notes : pos' = Segs[seg].start[i + 1]
  \/ pc' \in {"compare", "wild"}

(* What the termination of the search rests on: every step of it goes to   *)
(* a place after the one before, among finitely many, whatever the sizes   *)
(* in the notes are: a note with neither name nor descriptor does not keep *)
(* the pointer where it is.                                                *)
THEOREM SearchAdvances == Spec => [][Search => Advances]_vars
<1>1. ASSUME ScanInv, Search PROVE Advances
  <2>0. obj \in Nat /\ seg \in Nat /\ pos \in Nat
    <3>1. img \in Image
      BY <1>1 DEF ScanInv, ScanType
    <3>2. Len(img) \in Nat
      BY <3>1, ImageAssumption
    <3> QED
      BY <1>1, <3>2 DEF ScanInv, ScanType, BuildIdTypeOK
  <2>1. CASE SearchEnds \/ FoundNote \/ WildRead
    BY <2>1 DEF SearchEnds, FoundNote, WildRead, Advances
  <2>2. CASE SkipObject
    BY <2>2 DEF SkipObject, Advances
  <2>3. CASE EnterObject \/ EnterSegment
    BY <2>3 DEF EnterObject, EnterSegment, Advances
  <2>4. CASE LeaveObject
    <3>1. obj \in DOMAIN img /\ DOMAIN img = 1 .. Len(img) /\ Len(img) \in Nat
      BY <1>1, <2>4, ImageAssumption DEF LeaveObject, ScanInv, ScanType, SegmentPlace, InProgram
    <3>2. obj <= Len(img)
      BY <3>1
    <3> QED
      BY <2>4, <3>2 DEF LeaveObject, Advances
  <2>5. CASE SkipSegment
    BY <2>5 DEF SkipSegment, Advances
  <2>6. CASE LeaveSegment
    <3>1. seg \in DOMAIN Segs /\ Laid(img) /\ Segs = img[obj].segs /\ obj \in DOMAIN img
      BY <1>1, <2>6, AmongNotes DEF LeaveSegment
    <3>2. seg <= Len(Segs)
      BY <3>1 DEF Laid
    <3> QED
      BY <2>6, <3>2 DEF LeaveSegment, Advances
  <2>7. CASE SkipNote
    <3>1. pc = "note" /\ UNCHANGED <<pc, obj, seg>>
      BY <2>7 DEF SkipNote
    <3>2. PICK i \in Here : pos' = pos + Size(Notes[i])
      BY <2>7 DEF SkipNote
    <3>3. /\ i \in DOMAIN Notes /\ IsNote(Notes[i]) /\ Size(Notes[i]) \in Nat
          /\ pos + Size(Notes[i]) = Segs[seg].start[i + 1]
      BY <1>1, <3>1, HereUnique
    <3> DEFINE k == Size(Notes[i])
    <3>4. k \in Nat /\ k >= Header
      BY <3>3, SizeAtLeast
    <3> HIDE DEF k
    <3>5. pos + k > pos
      BY <2>0, <3>4 DEF Header
    <3>6. pos' > pos /\ pos' = Segs[seg].start[i + 1]
      BY <3>2, <3>3, <3>5 DEF k
    <3> QED
      BY <3>1, <3>3, <3>6 DEF Advances
  <2> QED
    BY <1>1, <2>1, <2>2, <2>3, <2>4, <2>5, <2>6, <2>7 DEF Search
<1>2. ScanInv /\ [Next]_vars => [Search => Advances]_vars
  BY <1>1
<1> QED
  BY <1>2, ScanInvariant, PTL DEF Spec

=============================================================================
