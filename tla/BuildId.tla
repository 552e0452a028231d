------------------------------ MODULE BuildId ------------------------------
(***************************************************************************)
(* How ngx.load_ffi finds the C part when it is not compiled into nginx:   *)
(* libresty_ffi.so is opened, and lua_resty_ffi_init looks for the build   *)
(* id in the notes of the running program.  The offsets the library was    *)
(* built with are good for that build only, so the three symbols of the    *)
(* thread pool are resolved when the ids are equal.                        *)
(*                                                                         *)
(* The search goes through the objects, segments and notes of the process  *)
(* with the pointer and the byte count of the source.  Lookup by symbol,   *)
(* which nobody calls, is left out.                                        *)
(***************************************************************************)
EXTENDS Integers, Sequences

CONSTANTS
  Image,     \* processes: sequences of loaded objects, in link order
  NgxBuild,  \* the build id, as bytes, symbols.h was generated for
  None

Header == 12       \* sizeof(ElfW(Nhdr))
NoteStruct == 16   \* sizeof(struct build_id_note)
GnuBuildId == 3    \* NT_GNU_BUILD_ID
Self == ""         \* dlpi_name of the program itself

Align_Down(n) == (n \div 4) * 4

(* ALIGN(n, 4)                                                             *)
Align(n) == ((n + 3) \div 4) * 4

(* A note: its type, the length of its name, whether the name is "GNU",    *)
(* and the descriptor.                                                     *)
Size(n) == Header + Align(n.namesz) + Align(Len(n.desc))

IsBuildId_AnyType(n) ==
  n.desc # <<>> /\ n.namesz = 4 /\ n.gnu

IsBuildId(n) ==
  n.type = GnuBuildId /\ n.desc # <<>> /\ n.namesz = 4 /\ n.gnu

(* n bytes and the padding that brings them to a multiple of 4.            *)
Padded(n, m) == m \in n .. n + 3 /\ m % 4 = 0

IsNote(n) ==
  /\ n.namesz \in Nat
  /\ n.desc \in Seq(0 .. 255)

(* The bytes from one note to the next are those of its header, its name   *)
(* and its descriptor, both padded.                                        *)
Stride(n, k) ==
  \E name \in n.namesz .. n.namesz + 3, desc \in Len(n.desc) .. Len(n.desc) + 3 :
    /\ Padded(n.namesz, name) /\ Padded(Len(n.desc), desc)
    /\ k = Header + name + desc

(* A segment: is it PT_NOTE, its notes, the offset where each starts, the  *)
(* end of the last included, and p_filesz.  The padding after the last     *)
(* descriptor may not be part of the file.                                 *)
Slack(s) == s.start[Len(s.notes) + 1] - s.filesz

IsSegment(s) ==
  /\ s.ptNote \in BOOLEAN
  /\ Len(s.notes) \in Nat /\ DOMAIN s.notes = 1 .. Len(s.notes)
  /\ s.start \in [1 .. Len(s.notes) + 1 -> Nat]
  /\ s.start[1] = 0
  /\ \A i \in DOMAIN s.notes : /\ IsNote(s.notes[i])
                               /\ Stride(s.notes[i], s.start[i + 1] - s.start[i])
  /\ \A i, j \in DOMAIN s.start : i < j => s.start[i] < s.start[j]
  /\ s.filesz \in Nat /\ Slack(s) \in 0 .. 3

ASSUME ImageAssumption ==
  \A p \in Image :
    /\ Len(p) \in Nat /\ DOMAIN p = 1 .. Len(p)
    /\ \A o \in DOMAIN p :
         /\ Len(p[o].segs) \in Nat /\ DOMAIN p[o].segs = 1 .. Len(p[o].segs)
         /\ \A g \in DOMAIN p[o].segs : IsSegment(p[o].segs[g])

ASSUME NoteAssumption ==
  /\ None \notin {0, -1, -2}
  /\ \A p \in Image : \A o \in DOMAIN p : \A g \in DOMAIN p[o].segs :
       \A i \in DOMAIN p[o].segs[g].notes : p[o].segs[g].notes[i] # None

ASSUME BuildAssumption == NgxBuild \in Seq(0 .. 255) /\ NgxBuild # <<>>

VARIABLES
  img,       \* the process
  builtin,   \* nginx was patched: it has the symbols itself
  init,      \* load_ffi: the C part was found
  open,      \* libresty_ffi.so is open, its symbols are global
  resolved,  \* the library's pointers into nginx are set
  pc,        \* "lua", or where lua_resty_ffi_init is
  obj, seg,  \* indices of the object and the segment of the search
  pos, len,  \* the offset of the pointer in it, the bytes that are left
  note,      \* data.note
  ret,       \* what lua_resty_ffi_init returned last
  failed     \* load_ffi has raised its error

scan == <<obj, seg, pos, len, note>>
vars == <<img, builtin, init, open, resolved, pc, scan, ret, failed>>

Init ==
  /\ img \in Image
  /\ builtin \in BOOLEAN
  /\ init = FALSE /\ open = FALSE /\ resolved = FALSE /\ failed = FALSE
  /\ pc = "lua"
  /\ obj = 1 /\ seg = 1 /\ pos = 0 /\ len = 0 /\ note = None
  /\ ret = None

-----------------------------------------------------------------------------
(* build_id_find_nhdr_by_name(""): dl_iterate_phdr and its callback.       *)

Segs == img[obj].segs
Notes == Segs[seg].notes

(* The notes that start where the pointer is: one, or none when it is past *)
(* the segment.                                                            *)
Here == {i \in DOMAIN Notes : Segs[seg].start[i] = pos}

(* No object is left, or the callback returned 1.                          *)
SearchEnds ==
  /\ pc = "object"
  /\ obj > Len(img)
  /\ pc' = "compare"
  /\ UNCHANGED <<img, builtin, init, open, resolved, scan, ret, failed>>

SkipObject ==
  /\ pc = "object"
  /\ obj <= Len(img)
  /\ img[obj].name # Self
  /\ obj' = obj + 1
  /\ UNCHANGED <<img, builtin, init, open, resolved, pc, seg, pos, len, note, ret, failed>>

EnterObject ==
  /\ pc = "object"
  /\ obj <= Len(img)
  /\ img[obj].name = Self
  /\ seg' = 1
  /\ pc' = "segment"
  /\ UNCHANGED <<img, builtin, init, open, resolved, obj, pos, len, note, ret, failed>>

LeaveObject ==
  /\ pc = "segment"
  /\ seg > Len(Segs)
  /\ obj' = obj + 1
  /\ pc' = "object"
  /\ UNCHANGED <<img, builtin, init, open, resolved, seg, pos, len, note, ret, failed>>

SkipSegment ==
  /\ pc = "segment"
  /\ seg <= Len(Segs)
  /\ ~Segs[seg].ptNote
  /\ seg' = seg + 1
  /\ UNCHANGED <<img, builtin, init, open, resolved, pc, obj, pos, len, note, ret, failed>>

EnterSegment ==
  /\ pc = "segment"
  /\ seg <= Len(Segs)
  /\ Segs[seg].ptNote
  /\ pos' = 0
  /\ len' = Segs[seg].filesz
  /\ pc' = "note"
  /\ UNCHANGED <<img, builtin, init, open, resolved, obj, seg, note, ret, failed>>

(* len >= sizeof(struct build_id_note): len is signed, the sizeof is not,  *)
(* so a negative len is converted to a large number.                       *)
More(n) == n >= NoteStruct \/ n < 0

LeaveSegment ==
  /\ pc = "note"
  /\ ~More(len)
  /\ seg' = seg + 1
  /\ pc' = "segment"
  /\ UNCHANGED <<img, builtin, init, open, resolved, obj, pos, len, note, ret, failed>>

FoundNote ==
  /\ pc = "note"
  /\ More(len)
  /\ \E i \in Here : IsBuildId(Notes[i]) /\ note' = Notes[i]
  /\ pc' = "compare"
  /\ UNCHANGED <<img, builtin, init, open, resolved, obj, seg, pos, len, ret, failed>>

SkipNote_Continue ==
  /\ pc = "note"
  /\ More(len)
  /\ \E i \in Here : ~IsBuildId(Notes[i])
  /\ UNCHANGED vars

SkipNote ==
  /\ pc = "note"
  /\ More(len)
  /\ \E i \in Here : /\ ~IsBuildId(Notes[i])
                     /\ pos' = pos + Size(Notes[i])
                     /\ len' = len - Size(Notes[i])
  /\ UNCHANGED <<img, builtin, init, open, resolved, pc, obj, seg, note, ret, failed>>

(* The pointer is not at a note: what is read there may be anything, and   *)
(* the model stops.                                                        *)
WildRead ==
  /\ pc = "note"
  /\ More(len) /\ Here = {}
  /\ pc' = "wild"
  /\ UNCHANGED <<img, builtin, init, open, resolved, scan, ret, failed>>

-----------------------------------------------------------------------------
(* lua_resty_ffi_init, and load_ffi around it.                             *)

Text_NoZeros(bytes) ==
  LET two == [j \in 1 .. 2 * Len(bytes) |->
                IF j % 2 = 1 THEN bytes[(j + 1) \div 2] \div 16
                             ELSE bytes[j \div 2] % 16]
      shown(j) == j % 2 = 0 \/ two[j] # 0
      F[j \in 0 .. Len(two)] ==
        IF j = 0 THEN <<>> ELSE IF shown(j) THEN Append(F[j - 1], two[j]) ELSE F[j - 1]
  IN  F[Len(two)]

(* sprintf "%02x" for each byte: two digits, each 0..15.                   *)
Text(bytes) ==
  [j \in 1 .. 2 * Len(bytes) |->
     IF j % 2 = 1 THEN bytes[(j + 1) \div 2] \div 16 ELSE bytes[j \div 2] % 16]

(* NGX_BUILD_ID: the text file(1) shows for the binary of the build.       *)
NgxBuildId == [j \in 1 .. 2 * Len(NgxBuild) |->
                 LET b == NgxBuild[(j + 1) \div 2] IN
                 IF j % 2 = 1 THEN b \div 16 ELSE b % 16]

(* The symbols are visible: in nginx, or in the library that is open.      *)
LoadFound ==
  /\ pc = "lua" /\ ~init
  /\ builtin \/ open
  /\ init' = TRUE
  /\ UNCHANGED <<img, builtin, open, resolved, pc, scan, ret, failed>>

(* ffi.load("resty_ffi", true), then the call of lua_resty_ffi_init.       *)
LoadOpens ==
  /\ pc = "lua" /\ ~init
  /\ ~builtin /\ ~open
  /\ open' = TRUE
  /\ pc' = "object"
  /\ obj' = 1 /\ note' = None
  /\ UNCHANGED <<img, builtin, init, resolved, seg, pos, len, ret, failed>>

Compare_ResolveFirst ==
  /\ pc = "compare"
  /\ ret' = IF note = None THEN -1 ELSE IF Text(note.desc) # NgxBuildId THEN -2 ELSE 0
  /\ resolved' = (note # None)
  /\ init' = (ret' = 0)
  /\ failed' = (failed \/ ret' # 0)
  /\ pc' = "lua"
  /\ UNCHANGED <<img, builtin, open, scan>>

Compare_AnyResult ==
  /\ pc = "compare"
  /\ ret' = IF note = None THEN -1 ELSE IF Text(note.desc) # NgxBuildId THEN -2 ELSE 0
  /\ resolved' = (ret' = 0)
  /\ init' = TRUE
  /\ pc' = "lua"
  /\ UNCHANGED <<img, builtin, open, scan, failed>>

(* The end of lua_resty_ffi_init.  On 0 load_ffi keeps the handle and sets *)
(* init; otherwise it raises an error, and the handle is garbage.          *)
Compare ==
  /\ pc = "compare"
  /\ ret' = IF note = None THEN -1 ELSE IF Text(note.desc) # NgxBuildId THEN -2 ELSE 0
  /\ resolved' = (ret' = 0)
  /\ init' = (ret' = 0)
  /\ failed' = (failed \/ ret' # 0)
  /\ pc' = "lua"
  /\ UNCHANGED <<img, builtin, open, scan>>

(* The collector closes the handle of a library that was refused.          *)
CloseRefused ==
  /\ pc = "lua" /\ open /\ ~resolved
  /\ open' = FALSE
  /\ UNCHANGED <<img, builtin, init, resolved, pc, scan, ret, failed>>

-----------------------------------------------------------------------------

Search ==
  \/ SearchEnds \/ SkipObject \/ EnterObject \/ LeaveObject
  \/ SkipSegment \/ EnterSegment \/ LeaveSegment
  \/ FoundNote \/ SkipNote \/ WildRead

Next == Search \/ Compare \/ LoadFound \/ LoadOpens \/ CloseRefused

Spec == Init /\ [][Next]_vars

(* The search and the comparison are plain sequential code.                *)
FairSpec == Spec /\ WF_vars(Search \/ Compare)

-----------------------------------------------------------------------------
(* Correctness.                                                            *)

(* The variables have their types.                                         *)
BuildIdTypeOK ==
  /\ builtin \in BOOLEAN /\ init \in BOOLEAN /\ open \in BOOLEAN
  /\ resolved \in BOOLEAN /\ failed \in BOOLEAN
  /\ pc \in {"lua", "object", "segment", "note", "compare", "wild"}
  /\ obj \in 1 .. Len(img) + 1
  /\ seg \in Nat /\ pos \in Nat /\ len \in Int
  /\ ret \in {None, 0, -1, -2}

(* Note i of segment g of object o of process p is a build id of the       *)
(* program: of the right type and vendor, and not empty.                   *)
Candidate(p, o, g, i) ==
  /\ p[o].name = Self
  /\ p[o].segs[g].ptNote
  /\ LET n == p[o].segs[g].notes[i] IN
     n.type = GnuBuildId /\ n.gnu /\ n.namesz = 4 /\ Len(n.desc) > 0

(* Place o, g, i comes before place o2, g2, i2.                            *)
Before(o, g, i, o2, g2, i2) ==
  o < o2 \/ (o = o2 /\ (g < g2 \/ (g = g2 /\ i < i2)))

(* No build id of the program comes before place o2, g2, i2.               *)
NoneBefore(p, o2, g2, i2) ==
  \A o \in DOMAIN p : \A g \in DOMAIN p[o].segs :
    \A i \in DOMAIN p[o].segs[g].notes :
      Candidate(p, o, g, i) => ~Before(o, g, i, o2, g2, i2)

(* The build id of the running program: that of its first such note.       *)
ProgramId(p, id) ==
  \E o \in DOMAIN p : \E g \in DOMAIN p[o].segs :
    \E i \in DOMAIN p[o].segs[g].notes :
      /\ Candidate(p, o, g, i) /\ NoneBefore(p, o, g, i)
      /\ p[o].segs[g].notes[i].desc = id

(* lua_resty_ffi_init returns 0 just when nginx is the build the library   *)
(* was made for, and -1 just when nginx has no build id, whatever other    *)
(* objects and notes there are around it.                                  *)
CheckCorrect ==
  pc = "lua" /\ ret # None =>
    /\ ret = 0 <=> ProgramId(img, NgxBuild)
    /\ ret = -1 <=> NoneBefore(img, Len(img) + 1, 1, 1)

(* The pointer goes from note to note and leaves a segment only if the     *)
(* padding of the last note is not in the file: then len becomes negative, *)
(* which the comparison takes for a large number.                          *)
NoWildRead ==
  pc = "wild" => /\ Slack(Segs[seg]) > 0
                 /\ pos = Segs[seg].start[Len(Notes) + 1]

(* The pointers into nginx are set for the right build only.               *)
ResolvedMatches == resolved => open /\ ProgramId(img, NgxBuild)

(* The C part is used unchecked only when an earlier load_ffi failed.      *)
UncheckedAfterFailure == init /\ ~builtin /\ ~resolved => failed

(* The check of the build id guards the use of the library: the error of   *)
(* load_ffi says that it is not used when the id is missing or another.    *)
CheckedBeforeUse == init => builtin \/ resolved

(* The search comes to an end, whatever the notes are.                     *)
SearchTerminates == pc = "object" ~> pc \in {"lua", "wild"}

=============================================================================
