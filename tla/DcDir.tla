-------------------------------- MODULE DcDir --------------------------------
(***************************************************************************)
(* The DcDir directory reader of src/base/dcdir.c.                         *)
(*                                                                         *)
(* A caller opens the root directory through its anchor, then opens        *)
(* sub-directories and regions by name.  Every name lookup is the static   *)
(* helper dcdir_find_in_dir: read the directory header, allocate a scratch *)
(* buffer for the body, read the body into it and scan its (name, pointer) *)
(* pairs one at a time.  The scan is modelled step by step because the     *)
(* code's bookkeeping of the remaining body size, the position it reads    *)
(* and the pointer it finally frees are three different quantities.        *)
(*                                                                         *)
(* Data abstraction.  Byte offsets and sizes are kept as numbers, with     *)
(* uint32_t arithmetic reduced to the width AddrMod.  A name is a sequence *)
(* of characters; the record stores its first NameWidth of them, padded    *)
(* with NUL.  What a read beyond the end of the scratch buffer returns is  *)
(* heap memory the build does not define: any record of the set Garbage.  *)
(* The libpayload heap is a set of live allocation ids; free() of a        *)
(* pointer that is not the start of an allocation is undefined behaviour  *)
(* and is modelled by its two outcomes: the free is ignored (the block     *)
(* leaks) or the heap is corrupted.                                        *)
(***************************************************************************)
EXTENDS Integers, Sequences, SequencesExt, FiniteSets

CONSTANTS
  NameWidth,     \* bytes of a record's name field (8 in the format)
  LookupNames,   \* the names callers look up: sequences of characters
  Storage,       \* storage offset -> anchor or directory node found there
  AnchorOffsets, \* offsets callers pass to dcdir_open_root
  AnchorSize,    \* sizeof(DcDirAnchor)
  HeaderSize,    \* sizeof(DcDirDirectoryHeader)
  AddrMod,       \* 2^w, the width of uint32_t offsets, scaled down
  Garbage,       \* records that bytes past the end of a buffer may decode to
  ReadMayFail,   \* storage_read may return an error
  MaxCalls,      \* bound on the number of open_* calls in a behaviour
  NUL, NoRecord, NoDir

ASSUME NameWidth \in Nat \ {0}
ASSUME HeaderSize \in Nat /\ AnchorSize \in Nat
ASSUME ReadMayFail \in BOOLEAN
ASSUME MaxCalls \in Nat

VARIABLES
  dirs,     \* the DcDir handles the callers hold
  out,      \* the caller's output struct of the last open_* call
  lk,       \* the dcdir_find_in_dir / open_* call in progress, or NoLookup
  live,     \* ids of live heap allocations
  nextId,   \* next allocation id
  corrupt,  \* the heap was corrupted by an invalid free()
  oob,      \* some read went past the end of a scratch buffer
  calls     \* number of open_* calls made

vars == <<dirs, out, lk, live, nextId, corrupt, oob, calls>>

\* The state of the call in progress; pc "idle" when there is none.
LookupState(pc, op, parent, name) ==
  [pc |-> pc, op |-> op, parent |-> parent, name |-> name, node |-> NoRecord,
   B |-> 0, size |-> 0, cur |-> 0, buf |-> 0, found |-> NoRecord, copy |-> 0,
   scanned |-> FALSE, stray |-> FALSE]

NoLookup == LookupState("idle", "none", NoDir, <<>>)

-----------------------------------------------------------------------------
(* The on-flash layout.                                                    *)

\* The bytes a record's name field holds: the first NameWidth characters of
\* its name, NUL padded.
Field(n) == [i \in 1..NameWidth |-> IF i <= Len(n) THEN n[i] ELSE NUL]

\* Bytes a (name, pointer) pair occupies: the 8-byte name and a pointer of
\* (size + 1) * 8 bytes.
PtrBytes(rec) == (rec.size + 1) * 8
PairBytes(rec) == 8 + PtrBytes(rec)

\* Byte offset of pair i inside a directory body.
PairStart(recs, i) ==
  FoldLeft(+, 0, [j \in 1..(i - 1) |-> PairBytes(recs[j])])

\* Body bytes the header declares: ((size[2..0]) + 1) * 8 - sizeof(header).
BodyBytes(node) == (node.sizeField + 1) * 8 - HeaderSize

IsDirNode(off) == off \in DOMAIN Storage /\ Storage[off].kind = "dir"
IsAnchor(off) == off \in DOMAIN Storage /\ Storage[off].kind = "anchor"

\* The records a read at byte c of a body buffer of B bytes may see.  Inside
\* the buffer and at the start of a pair it is that pair; anywhere else it is
\* memory the code never wrote.
RecordsAt(node, B, c) ==
  LET starts == {i \in 1..Len(node.recs) : PairStart(node.recs, i) = c}
  IN IF c + 16 <= B /\ starts # {}
     THEN {node.recs[CHOOSE i \in starts : TRUE]}
     ELSE Garbage

\* memcmp(name, ptr_name, MIN(strlen(name), sizeof(*ptr_name))) == 0
NameMatches(name, field) ==
  \A i \in 1..(IF Len(name) < NameWidth THEN Len(name) ELSE NameWidth) :
    name[i] = field[i]

-----------------------------------------------------------------------------
(* The libpayload heap.                                                    *)

\* Outcomes of free(p) where p lies off bytes into allocation id.
FreeOutcomes(id, off) ==
  IF off = 0 THEN {[live |-> live \ {id}, corrupt |-> corrupt]}
  ELSE {[live |-> live, corrupt |-> corrupt], [live |-> live, corrupt |-> TRUE]}

-----------------------------------------------------------------------------
(* dcdir_open_root.  The anchor is read, checked and turned into the root *)
(* handle; any failed check returns 1 with the caller's struct untouched.  *)

OpenRoot(a) ==
  /\ lk = NoLookup
  /\ calls < MaxCalls
  /\ calls' = calls + 1
  /\ \/ /\ ReadMayFail
        /\ UNCHANGED <<dirs, out>>
     \/ LET anc == Storage[a]
            d   == [offset |-> (a + AnchorSize) % AddrMod, base |-> anc.rootBase]
        IN IF IsAnchor(a) /\ anc.sigOk /\ anc.version = 1 /\ anc.anchorOffset = a
           THEN /\ out' = d
                /\ dirs' = dirs \cup {d}
           ELSE UNCHANGED <<dirs, out>>
  /\ UNCHANGED <<lk, live, nextId, corrupt, oob>>

\* dcdir_open_dir / dcdir_open_region: the call starts its lookup.
Call(op, parent, name) ==
  /\ lk = NoLookup
  /\ calls < MaxCalls
  /\ calls' = calls + 1
  /\ lk' = LookupState("header", op, parent, name)
  /\ UNCHANGED <<dirs, out, live, nextId, corrupt, oob>>

\* The lookup returns NULL to its caller.
NotFound(l) == [l EXCEPT !.pc = "resolve", !.found = NoRecord]

(* dcdir_find_in_dir up to the scan: header read and checks, the scratch   *)
(* allocation, the body read and the free on its failure.                  *)
FindHeader ==
  /\ lk.pc = "header"
  /\ LET off  == lk.parent.offset
         node == Storage[off]
         B    == BodyBytes(node)
     IN \/ /\ ReadMayFail
           /\ lk' = NotFound(lk)
           /\ UNCHANGED <<live, nextId, corrupt>>
        \/ /\ ~IsDirNode(off) \/ ~node.sigOk \/ B < 0
           /\ lk' = NotFound(lk)
           /\ UNCHANGED <<live, nextId, corrupt>>
        \/ /\ IsDirNode(off) /\ node.sigOk /\ B >= 0
           /\ nextId' = nextId + 1
           /\ \/ /\ ReadMayFail
                 /\ lk' = NotFound(lk)
                 /\ UNCHANGED <<live, corrupt>>
              \/ /\ live' = live \cup {nextId}
                 /\ lk' = [lk EXCEPT !.pc = "scan", !.node = node, !.B = B,
                              !.size = B, !.cur = 0, !.buf = nextId]
                 /\ UNCHANGED corrupt
  /\ UNCHANGED <<dirs, out, oob, calls>>

\* Mutant: the cursor advances past the pointer but not past its name.
ScanStep_SkipsName ==
  /\ lk.pc = "scan"
  /\ lk.size > 0
  /\ \E rec \in RecordsAt(lk.node, lk.B, lk.cur) :
       LET ptrSize == PtrBytes(rec)
       IN IF NameMatches(lk.name, rec.field)
          THEN /\ LET stray == lk.cur + 16 > lk.B \/ lk.cur + 8 + ptrSize > lk.B
                  IN /\ oob' = (oob \/ stray)
                     /\ lk' = [lk EXCEPT !.pc = "resolve", !.found = rec, !.copy = nextId,
                                  !.scanned = TRUE, !.stray = @ \/ stray]
               /\ \E o \in FreeOutcomes(lk.buf, lk.cur + 8) :
                    /\ live' = o.live \cup {nextId}
                    /\ corrupt' = o.corrupt
               /\ nextId' = nextId + 1
          ELSE /\ oob' = (oob \/ lk.cur + 16 > lk.B)
               /\ lk' = [lk EXCEPT !.cur = @ + ptrSize, !.size = @ - ptrSize,
                            !.stray = @ \/ lk.cur + 16 > lk.B]
               /\ UNCHANGED <<live, nextId, corrupt>>
  /\ UNCHANGED <<dirs, out, calls>>

(* One iteration of the scan loop (size > 0): read the name and the        *)
(* pointer header at the cursor; on a match copy the pointer into a new   *)
(* allocation and free(pointers), which now points past the name; else    *)
(* advance pointers past name and pointer and subtract ptr_size from size. *)
ScanStep ==
  /\ lk.pc = "scan"
  /\ lk.size > 0
  /\ \E rec \in RecordsAt(lk.node, lk.B, lk.cur) :
       LET ptrSize == PtrBytes(rec)
       IN IF NameMatches(lk.name, rec.field)
          THEN /\ LET stray == lk.cur + 16 > lk.B \/ lk.cur + 8 + ptrSize > lk.B
                  IN /\ oob' = (oob \/ stray)
                     /\ lk' = [lk EXCEPT !.pc = "resolve", !.found = rec, !.copy = nextId,
                                  !.scanned = TRUE, !.stray = @ \/ stray]
               /\ \E o \in FreeOutcomes(lk.buf, lk.cur + 8) :
                    /\ live' = o.live \cup {nextId}
                    /\ corrupt' = o.corrupt
               /\ nextId' = nextId + 1
          ELSE /\ oob' = (oob \/ lk.cur + 16 > lk.B)
               /\ lk' = [lk EXCEPT !.cur = @ + 8 + ptrSize, !.size = @ - ptrSize,
                            !.stray = @ \/ lk.cur + 16 > lk.B]
               /\ UNCHANGED <<live, nextId, corrupt>>
  /\ UNCHANGED <<dirs, out, calls>>

\* The scan loop ends (size <= 0): free(pointers) at the cursor, return NULL.
ScanEnd ==
  /\ lk.pc = "scan"
  /\ lk.size <= 0
  /\ \E o \in FreeOutcomes(lk.buf, lk.cur) :
       /\ live' = o.live
       /\ corrupt' = o.corrupt
  /\ lk' = [NotFound(lk) EXCEPT !.scanned = TRUE]
  /\ UNCHANGED <<dirs, out, nextId, oob, calls>>

-----------------------------------------------------------------------------
(* dcdir_open_dir_raw and dcdir_open_region after the lookup: check the    *)
(* directory bit, dispatch on the pointer type, compute the result         *)
(* relative to the parent's unrelocated offset and free the copied        *)
(* pointer.                                                                *)

ParentOffset(p) == (p.offset - p.base) % AddrMod

\* Mutant: offsets summed without the uint32_t wrap.
Resolved_NoWrap(op, p, rec) ==
  LET po == ParentOffset(p)
      variant == rec.type \div 2
  IN CASE variant = 1 /\ op = "dir" -> [offset |-> po + rec.off, base |-> 0]
       [] variant = 2 /\ op = "dir" ->
            [offset |-> po + rec.off + rec.base, base |-> rec.base]
       [] variant \in {1, 2} /\ op = "region" ->
            [offset |-> po + rec.off, size |-> rec.len + 1]
       [] OTHER -> NoDir

\* The handle or region a found pointer resolves to, or NoDir for a type
\* the code does not know.
Resolved(op, p, rec) ==
  LET po == ParentOffset(p)
      variant == rec.type \div 2
  IN CASE variant = 1 /\ op = "dir" ->
            [offset |-> (po + rec.off) % AddrMod, base |-> 0]
       [] variant = 2 /\ op = "dir" ->
            [offset |-> (po + rec.off + rec.base) % AddrMod, base |-> rec.base]
       [] variant \in {1, 2} /\ op = "region" ->
            [offset |-> (po + rec.off) % AddrMod, size |-> (rec.len + 1) % AddrMod]
       [] OTHER -> NoDir

WantsDirBit(op) == IF op = "dir" THEN 1 ELSE 0

\* The lookup returned NULL: return 1.
ResolveNotFound ==
  /\ lk.pc = "resolve"
  /\ lk.found = NoRecord
  /\ lk' = NoLookup
  /\ UNCHANGED <<dirs, out, live, nextId, corrupt, oob, calls>>

\* Mutant: the output struct is written before the directory bit is checked.
ResolveReject_WritesOutput ==
  /\ lk.pc = "resolve"
  /\ lk.found # NoRecord
  /\ \/ lk.found.type % 2 # WantsDirBit(lk.op)
     \/ Resolved(lk.op, lk.parent, lk.found) = NoDir
  /\ live' = live \ {lk.copy}
  /\ lk' = NoLookup
  /\ out' = IF Resolved(lk.op, lk.parent, lk.found) # NoDir
            THEN Resolved(lk.op, lk.parent, lk.found) ELSE out
  /\ UNCHANGED <<dirs, nextId, corrupt, oob, calls>>

\* The pointer is the wrong kind or of an unknown type: free it, return 1.
ResolveReject ==
  /\ lk.pc = "resolve"
  /\ lk.found # NoRecord
  /\ \/ lk.found.type % 2 # WantsDirBit(lk.op)
     \/ Resolved(lk.op, lk.parent, lk.found) = NoDir
  /\ live' = live \ {lk.copy}
  /\ lk' = NoLookup
  /\ UNCHANGED <<dirs, out, nextId, corrupt, oob, calls>>

\* The pointer resolves: write the caller's struct, free the copy, return 0.
ResolveOk ==
  /\ lk.pc = "resolve"
  /\ lk.found # NoRecord
  /\ lk.found.type % 2 = WantsDirBit(lk.op)
  /\ Resolved(lk.op, lk.parent, lk.found) # NoDir
  /\ out' = Resolved(lk.op, lk.parent, lk.found)
  /\ dirs' = IF lk.op = "dir" THEN dirs \cup {out'} ELSE dirs
  /\ live' = live \ {lk.copy}
  /\ lk' = NoLookup
  /\ UNCHANGED <<nextId, corrupt, oob, calls>>

-----------------------------------------------------------------------------

Init ==
  /\ dirs = {}
  /\ out = NoDir
  /\ lk = NoLookup
  /\ live = {}
  /\ nextId = 1
  /\ corrupt = FALSE
  /\ oob = FALSE
  /\ calls = 0

Next ==
  \/ \E a \in AnchorOffsets : OpenRoot(a)
  \/ \E op \in {"dir", "region"}, p \in dirs, n \in LookupNames : Call(op, p, n)
  \/ FindHeader
  \/ ScanStep
  \/ ScanEnd
  \/ ResolveNotFound
  \/ ResolveReject
  \/ ResolveOk

\* One thread of control runs each call to its end.
Spec == Init /\ [][Next]_vars /\ WF_vars(FindHeader \/ ScanStep \/ ScanEnd
                                         \/ ResolveNotFound \/ ResolveReject \/ ResolveOk)

-----------------------------------------------------------------------------
(* Properties.                                                             *)

Dirs == [offset : 0..(AddrMod - 1), base : 0..(AddrMod - 1)]

TypeOK ==
  /\ dirs \subseteq Dirs
  /\ lk.pc \in {"idle", "header", "scan", "resolve"}
  /\ live \subseteq 1..(nextId - 1)
  /\ corrupt \in BOOLEAN /\ oob \in BOOLEAN
  /\ calls \in 0..MaxCalls

\* The lookup the format defines: the first pair lying wholly inside the
\* declared body whose name field matches, or NoRecord.
Reference(node, B, name) ==
  LET recs == node.recs
      hits == {i \in 1..Len(recs) :
                 /\ PairStart(recs, i) + PairBytes(recs[i]) <= B
                 /\ NameMatches(name, recs[i].field)}
  IN IF hits = {} THEN NoRecord
     ELSE recs[CHOOSE i \in hits : \A j \in hits : i <= j]

(* A lookup that read only inside its scratch buffer returns what the     *)
(* format defines: dcdir_find_in_dir's walk over pairs of self-described  *)
(* size finds the first matching pair of the body, or none.                *)
ScanAgreesWithReference ==
  (lk.pc = "resolve" /\ lk.scanned /\ ~lk.stray)
    => lk.found = Reference(lk.node, lk.B, lk.name)

\* The call in progress ends in success: a found pointer of the wanted kind
\* and a known type.
Succeeds(l) ==
  /\ l.found # NoRecord
  /\ l.found.type % 2 = WantsDirBit(l.op)
  /\ Resolved(l.op, l.parent, l.found) # NoDir

(* dcdir_open_dir and dcdir_open_region write the caller's struct only     *)
(* when they return 0: a failed lookup, a pointer of the wrong kind or of *)
(* an unknown type leaves it as it was.                                    *)
OutputUntouchedOnFailure ==
  [][(lk.pc = "resolve" /\ lk' = NoLookup /\ ~Succeeds(lk)) => out' = out]_vars

(* Spec 8: a lookup never reads past the end of the directory body it     *)
(* read, whatever the body holds and whether or not the name is found.     *)
NoOutOfBoundsRead == ~oob

(* Spec 3/8: directory memory is scratch: when no call is in progress      *)
(* every allocation dcdir_find_in_dir and its callers made has been        *)
(* released, and the heap is intact.                                       *)
ScratchReleased == lk = NoLookup => (live = {} /\ ~corrupt)

=============================================================================
