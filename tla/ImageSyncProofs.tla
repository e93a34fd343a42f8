---------------------------- MODULE ImageSyncProofs ----------------------------
(* File sync, for every set of frames, every installation and any number of    *)
(* faults.                                                                     *)
EXTENDS ImageSync, TLAPS

Bytes == Digests \union {Mixed}

(* What a scan saw, and the digests of a manifest. *)
Facts == UNION {[S -> Nat] : S \in SUBSET Frames}
Entries == UNION {[S -> Bytes] : S \in SUBSET Frames}

FileStates ==
  [bytes : Digests, size : Nat, mtime : Nat, settled : BOOLEAN, writing : BOOLEAN]

Views ==
  [at : {"idle", "scanned", "hashing"}, facts : Facts, left : SUBSET Frames,
   reading : {<<>>} \union (Frames \X Digests), entries : Entries]

Passes ==
  [at : {"idle", "source", "put", "record"}, by : {"none", "tick", "now"}, left : SUBSET Frames,
   copying : {<<>>} \union (Frames \X Digests), error : BOOLEAN, failed : BOOLEAN]

Agents ==
  [at : {"idle", "manifest", "fetch", "stream"}, left : SUBSET Frames,
   frame : {<<>>} \union {<<f>> : f \in Frames}, upto : Nat]

LibraryType ==
  /\ setup \in Setups
  /\ file \in [Frames -> FileStates] /\ clock \in Nat
  /\ cache \subseteq [frame : Frames, mtime : Nat, digest : Bytes]
  /\ view \in [Sides -> Views]

PushType ==
  /\ enabled \in BOOLEAN /\ online \in BOOLEAN /\ dest \in [Frames -> Bytes]
  /\ poke \in {"none", "fresh", "due"} /\ sweepDue \in BOOLEAN
  /\ asked \subseteq {"tick", "now"} /\ pass \in Passes
  /\ failures \in 0 .. FailLoudAfter /\ alarmed \in BOOLEAN
  /\ faults \in 0 .. MaxFaults

PullType ==
  /\ agent \in Agents /\ (agent.at = "stream" => agent.frame # <<>>)
  /\ part \in [Frames -> [len : Nat, bytes : Bytes]]
  /\ pulled \in [Frames -> Bytes]

(* What a file's flags and times say: it was last written by the clock, a      *)
(* write in progress leaves odd bytes, and only a finished file settles.       *)
Written ==
  \A f \in Frames :
    /\ file[f].mtime <= clock
    /\ file[f].writing => file[f].bytes \in {1, 3}
    /\ file[f].settled => file[f].bytes > 0 /\ ~file[f].writing

--------------------------------------------------------------------------------
(* The records the state is made of *)

LEMMA FactsElim ==
  ASSUME NEW x \in Facts
  PROVE  DOMAIN x \subseteq Frames /\ \A f \in DOMAIN x : x[f] \in Nat
  BY DEF Facts

LEMMA FactsIntro ==
  ASSUME NEW S \in SUBSET Frames, NEW x \in [S -> Nat]
  PROVE  x \in Facts
  BY DEF Facts

LEMMA EntriesElim ==
  ASSUME NEW x \in Entries
  PROVE  DOMAIN x \subseteq Frames /\ \A f \in DOMAIN x : x[f] \in Bytes
  BY DEF Entries

LEMMA EntriesIntro ==
  ASSUME NEW S \in SUBSET Frames, NEW x \in [S -> Bytes]
  PROVE  x \in Entries
  BY DEF Entries

LEMMA NoViewType == NoView \in Views
  <1>1. <<>> \in [{} -> Nat] /\ <<>> \in [{} -> Bytes]
    OBVIOUS
  <1>2. <<>> \in Facts /\ <<>> \in Entries
    BY <1>1, FactsIntro, EntriesIntro
  <1> QED
    BY <1>2 DEF NoView, Views

LEMMA NoPassType == NoPass \in Passes
  BY DEF NoPass, Passes

LEMMA RestingType == Resting \in Agents /\ Resting.at = "idle"
  BY DEF Resting, Agents

LEMMA ByteTypes == Digests \subseteq Bytes /\ Mixed \in Bytes /\ 0 \in Digests /\ Mixed \notin Digests
                   /\ \A b \in Bytes : b \in Int
  BY DEF Bytes, Digests, Mixed

(* A manifest gets one more digest. *)
LEMMA EntryView ==
  ASSUME view \in [Sides -> Views], NEW p \in Sides, NEW f \in Frames, NEW d \in Bytes
  PROVE  LET v == Entry(p, f, d) IN
         /\ v \in [Sides -> Views]
         /\ \A q \in Sides : q # p => v[q] = view[q]
         /\ v[p].at = view[p].at /\ v[p].facts = view[p].facts
         /\ v[p].left = view[p].left \ {f} /\ v[p].reading = <<>>
         /\ DOMAIN v[p].entries = DOMAIN view[p].entries \union {f}
  <1>1. view[p] \in Views
    OBVIOUS
  <1> DEFINE en == [g \in DOMAIN view[p].entries \union {f} |-> IF g = f THEN d ELSE view[p].entries[g]]
             w == [view[p] EXCEPT !.left = @ \ {f}, !.reading = <<>>, !.entries = en]
             v == Entry(p, f, d)
  <1>2. view[p].entries \in Entries
    BY <1>1 DEF Views
  <1>3. en \in Entries /\ DOMAIN en = DOMAIN view[p].entries \union {f}
    <2>1. DOMAIN view[p].entries \union {f} \in SUBSET Frames
      BY <1>2, EntriesElim
    <2>2. en \in [DOMAIN view[p].entries \union {f} -> Bytes]
      BY <1>2, EntriesElim
    <2> QED
      BY <2>1, <2>2, EntriesIntro
  <1>4. v = [view EXCEPT ![p] = w]
    BY <1>1 DEF Entry, Views
  <1> HIDE DEF en
  <1>5. /\ w \in Views /\ w.at = view[p].at /\ w.facts = view[p].facts
        /\ w.left = view[p].left \ {f} /\ w.reading = <<>> /\ w.entries = en
    BY <1>1, <1>3 DEF Views
  <1> HIDE DEF w, v
  <1>6. v[p] = w /\ v \in [Sides -> Views] /\ \A q \in Sides : q # p => v[q] = view[q]
    BY <1>4, <1>5
  <1>7. v[p].at = view[p].at /\ v[p].facts = view[p].facts
    BY <1>5, <1>6
  <1>8. v[p].left = view[p].left \ {f} /\ v[p].reading = <<>> /\ v[p].entries = en
    BY <1>5, <1>6
  <1> QED
    BY <1>3, <1>6, <1>7, <1>8 DEF v

--------------------------------------------------------------------------------
(* What a step does to the library *)

(* A step of the writer. *)
WriterStep == \E f \in Frames : WriteStart(f) \/ WriteEnd(f) \/ Settle(f)

(* One of the two manifests is used up, or its builder is gone. *)
Forgets == (\E p \in Sides : Forget(p)) /\ UNCHANGED <<file, clock, cache>>

LEMMA LibrarySteps ==
  ASSUME [Next]_vars
  PROVE  /\ setup' = setup
         /\ \/ WriterStep \/ Crash \/ Forgets
            \/ (\E p \in Sides : Manifest(p))
            \/ UNCHANGED library
  <1>1. CASE Files \/ Saves
    BY <1>1 DEF Files, Saves, SaveEnds, WriterStep, Next, vars
  <1>2. CASE Crash
    BY <1>2 DEF Next, vars
  <1>3. CASE Runner
    BY <1>3 DEF Runner, Debounce, SweepElapses, DestinationLost, DestinationBack, Tick, TickOff,
                Configure, PushNow, Ask, PushStep, Turn, PassManifest, ScanFails, DestManifest,
                PutStart, PutEnd, PutFails, Record, Forgets, Sides, Next, vars
  <1>4. CASE PullStep \/ Interrupted
    BY <1>4 DEF PullStep, Interrupted, PollStart, FetchManifest, OnePass, Download, Block, Commit,
                ShortRead, PollEnds, Forgets, Sides, Next, vars
  <1>5. CASE UNCHANGED vars
    BY <1>5 DEF vars
  <1> QED
    BY <1>1, <1>2, <1>3, <1>4, <1>5 DEF Next

(* What a step does to one file: nothing, a write that the clock dates, or one *)
(* of its flags.                                                               *)
Dated(f) ==
  /\ clock' = clock + 1 /\ file'[f].mtime = clock + 1 /\ ~file'[f].settled
  /\ file'[f].bytes = file[f].bytes + 1 /\ file'[f].size \in Nat
  /\ \/ ~file[f].writing /\ file[f].bytes \in {0, 2} /\ file'[f].writing
     \/ file[f].writing /\ ~file'[f].writing
  /\ file'[f].writing \in BOOLEAN

Flagged(f) ==
  /\ file'[f].bytes = file[f].bytes /\ file'[f].mtime = file[f].mtime
  /\ file'[f].size = file[f].size
  /\ \/ file'[f].writing = file[f].writing /\ file'[f].settled = file[f].settled
     \/ /\ file[f].bytes > 0 /\ ~file[f].writing /\ file'[f].settled = TRUE
        /\ file'[f].writing = file[f].writing
     \/ file'[f].writing = FALSE /\ file'[f].settled = file[f].settled

FileStep ==
  /\ \A f \in Frames : file'[f] \in FileStates /\ (Dated(f) \/ Flagged(f))
  /\ clock' \in Nat /\ clock <= clock'

LEMMA WriteShape ==
  ASSUME LibraryType, NEW f \in Frames, NEW n \in Nat, NEW w \in BOOLEAN,
         file[f].bytes + 1 \in Digests, Write(f, n, w),
         \/ ~file[f].writing /\ file[f].bytes \in {0, 2} /\ w
         \/ file[f].writing /\ ~w
  PROVE  FileStep
  <1>1. file[f] \in FileStates /\ clock \in Nat /\ clock' = clock + 1
        /\ file \in [Frames -> FileStates]
    BY DEF LibraryType, Write
  <1> DEFINE x == [bytes |-> file[f].bytes + 1, size |-> n, mtime |-> clock + 1,
                   settled |-> FALSE, writing |-> w]
  <1>2. file' = [file EXCEPT ![f] = x]
    BY DEF Write
  <1>3. /\ x.bytes = file[f].bytes + 1 /\ x.size = n /\ x.mtime = clock + 1
        /\ x.settled = FALSE /\ x.writing = w /\ x \in FileStates
    BY <1>1 DEF FileStates
  <1> HIDE DEF x
  <1>4. file'[f] = x /\ \A g \in Frames : g # f => file'[g] = file[g]
    BY <1>1, <1>2
  <1>5. Dated(f)
    BY <1>1, <1>3, <1>4 DEF Dated
  <1>6. \A g \in Frames : g # f => Flagged(g)
    BY <1>4 DEF Flagged
  <1>7. clock' \in Nat /\ clock <= clock'
    BY <1>1
  <1>8. \A g \in Frames : file'[g] \in FileStates
    BY <1>1, <1>3, <1>4
  <1> QED
    BY <1>5, <1>6, <1>7, <1>8 DEF FileStep

LEMMA FileEffect ==
  ASSUME LibraryType, Written, [Next]_vars
  PROVE  FileStep
  <1>1. /\ file \in [Frames -> FileStates] /\ clock \in Nat /\ clock <= clock
        /\ setup \in Setups
    BY DEF LibraryType
  <1>2. CASE UNCHANGED <<file, clock>>
    BY <1>1, <1>2 DEF FileStep, Flagged
  <1>3. CASE Crash
    <2>1. clock' = clock /\ file' = [f \in Frames |-> [file[f] EXCEPT !.writing = FALSE]]
      BY <1>3 DEF Crash
    <2>2. \A f \in Frames :
            /\ file'[f] \in FileStates
            /\ file'[f].bytes = file[f].bytes /\ file'[f].mtime = file[f].mtime
            /\ file'[f].size = file[f].size
            /\ file'[f].writing = FALSE /\ file'[f].settled = file[f].settled
      BY <1>1, <2>1 DEF FileStates
    <2> QED
      BY <1>1, <2>1, <2>2 DEF FileStep, Flagged
  <1>4. CASE WriterStep
    <2>1. PICK f \in Frames : WriteStart(f) \/ WriteEnd(f) \/ Settle(f)
      BY <1>4 DEF WriterStep
    <2>2. file[f] \in FileStates /\ file[f].bytes \in Digests /\ file[f].size \in Nat
      BY <1>1 DEF FileStates
    <2>3. CASE Settle(f)
      <3> DEFINE x == [file[f] EXCEPT !.settled = TRUE]
      <3>1. file' = [file EXCEPT ![f] = x] /\ clock' = clock
        BY <1>1, <2>3 DEF Settle
      <3>2. /\ x \in FileStates /\ x.bytes = file[f].bytes /\ x.mtime = file[f].mtime
            /\ x.size = file[f].size /\ x.settled = TRUE /\ x.writing = file[f].writing
        BY <2>2 DEF FileStates
      <3> HIDE DEF x
      <3>3. file'[f] = x /\ \A g \in Frames : g # f => file'[g] = file[g]
        BY <1>1, <3>1
      <3>4. Flagged(f)
        BY <2>3, <3>2, <3>3 DEF Flagged, Settle
      <3>5. \A g \in Frames : g # f => Flagged(g)
        BY <3>3 DEF Flagged
      <3>6. \A g \in Frames : file'[g] \in FileStates
        BY <1>1, <3>2, <3>3
      <3> QED
        BY <1>1, <3>1, <3>4, <3>5, <3>6 DEF FileStep
    <2>4. CASE WriteStart(f)
      <3>1. setup.last[f] \in {0, 2, 4}
        BY <1>1, ImageLibraryAssumption
      <3>2. ~file[f].writing /\ file[f].bytes \in {0, 2} /\ file[f].bytes + 1 \in Digests
        BY <2>2, <2>4, <3>1 DEF WriteStart, Digests
      <3>3. \E n \in Nat : Write(f, n, TRUE)
        BY <2>2, <2>4 DEF WriteStart
      <3> QED
        BY <3>2, <3>3, WriteShape
    <2>5. CASE WriteEnd(f)
      <3>1. file[f].writing /\ file[f].bytes \in {1, 3} /\ file[f].bytes + 1 \in Digests
        BY <2>5 DEF WriteEnd, Written, Digests
      <3>2. \E n \in Nat : Write(f, n, FALSE)
        BY <2>5 DEF WriteEnd
      <3> QED
        BY <3>1, <3>2, WriteShape
    <2> QED
      BY <2>1, <2>3, <2>4, <2>5
  <1> QED
    BY <1>2, <1>3, <1>4, LibrarySteps
       DEF Forgets, Manifest, Scan, Pick, HashHit, HashStart, HashEnd, library

LEMMA WrittenStep ==
  ASSUME LibraryType, Written, [Next]_vars
  PROVE  Written'
  <1>1. FileStep
    BY FileEffect
  <1> SUFFICES ASSUME NEW f \in Frames
               PROVE  /\ file'[f].mtime <= clock'
                      /\ file'[f].writing => file'[f].bytes \in {1, 3}
                      /\ file'[f].settled => file'[f].bytes > 0 /\ ~file'[f].writing
    BY DEF Written
  <1>2. /\ file[f].mtime <= clock
        /\ file[f].writing => file[f].bytes \in {1, 3}
        /\ file[f].settled => file[f].bytes > 0 /\ ~file[f].writing
    BY DEF Written
  <1>3. file[f].mtime \in Nat /\ clock \in Nat /\ clock' \in Nat /\ clock <= clock'
    BY <1>1 DEF LibraryType, FileStates, FileStep
  <1>4. CASE Dated(f)
    BY <1>2, <1>3, <1>4 DEF Dated
  <1>5. CASE Flagged(f)
    BY <1>2, <1>3, <1>5 DEF Flagged
  <1> QED
    BY <1>1, <1>4, <1>5 DEF FileStep

--------------------------------------------------------------------------------
(* The manifests *)

(* A frame whose first save is over, or will never be because the rig died.    *)
Torn(f) == file[f].bytes = 1 /\ ~file[f].writing
Offered(f) == file[f].bytes >= 2 \/ Torn(f)

(* What a manifest in the making says of the files: a mtime it saw is not      *)
(* newer than the file's, and while it is the file's the bytes being read are  *)
(* too; what it hashes or lists is fit to be offered.                          *)
ViewInv(p) ==
  LET v == view[p] IN
  /\ v.left \subseteq DOMAIN v.facts
  /\ \A f \in DOMAIN v.facts :
       /\ v.facts[f] <= file[f].mtime /\ file[f].bytes > 0
       /\ file[f].bytes = 1 => v.facts[f] = file[f].mtime
  /\ v.at # "hashing" => v.reading = <<>>
  /\ v.reading # <<>> =>
       /\ v.reading[1] \in v.left
       /\ v.facts[v.reading[1]] = file[v.reading[1]].mtime
            => v.reading[2] = file[v.reading[1]].bytes
  /\ \A f \in v.left \union DOMAIN v.entries : Offered(f)

(* The same of the cache, whose entries outlive the manifests. *)
CacheInv == \A c \in cache : c.mtime <= file[c.frame].mtime

LibraryInv ==
  LibraryType /\ Written /\ (\A p \in Sides : ViewInv(p)) /\ CacheInv /\ CacheTrue

LEMMA ViewFields ==
  ASSUME LibraryType, NEW p \in Sides
  PROVE  /\ view[p] \in Views /\ view[p].facts \in Facts /\ view[p].entries \in Entries
         /\ view[p].left \subseteq Frames /\ DOMAIN view[p].facts \subseteq Frames
         /\ DOMAIN view[p].entries \subseteq Frames
         /\ view[p].reading # <<>> => view[p].reading[1] \in Frames /\ view[p].reading[2] \in Digests
  <1>1. view[p] \in Views
    BY DEF LibraryType
  <1>2. view[p].facts \in Facts /\ view[p].entries \in Entries /\ view[p].left \subseteq Frames
        /\ view[p].reading \in {<<>>} \union (Frames \X Digests)
    BY <1>1 DEF Views
  <1> QED
    BY <1>1, <1>2, FactsElim, EntriesElim

(* Whatever the writer does, what is fit to be offered stays so. *)
LEMMA OfferedStays ==
  ASSUME LibraryType, FileStep, NEW f \in Frames
  PROVE  (Offered(f) => Offered(f)') /\ (Torn(f) => Torn(f)')
  <1>1. file[f].bytes \in Nat
    BY DEF LibraryType, FileStates, Digests
  <1>2. CASE Dated(f)
    BY <1>1, <1>2 DEF Dated, Offered, Torn
  <1>3. CASE Flagged(f)
    BY <1>1, <1>3 DEF Flagged, Offered, Torn
  <1> QED
    BY <1>2, <1>3 DEF FileStep

LEMMA FileMoves ==
  ASSUME LibraryType, Written, FileStep, NEW f \in Frames
  PROVE  /\ file[f].mtime \in Nat /\ file[f].bytes \in Nat
         /\ file'[f].mtime \in Nat /\ file'[f].bytes \in Nat
         /\ \/ file'[f].mtime = file[f].mtime /\ file'[f].bytes = file[f].bytes
            \/ file[f].mtime < file'[f].mtime /\ file'[f].bytes = file[f].bytes + 1
  <1>1. /\ file[f].mtime \in Nat /\ file[f].bytes \in Nat /\ clock \in Nat
        /\ file'[f].mtime \in Nat /\ file'[f].bytes \in Nat /\ file[f].mtime <= clock
    BY DEF LibraryType, FileStates, Digests, FileStep, Written
  <1>2. CASE Dated(f)
    BY <1>1, <1>2 DEF Dated
  <1>3. CASE Flagged(f)
    BY <1>1, <1>3 DEF Flagged
  <1> QED
    BY <1>2, <1>3 DEF FileStep

LEMMA ViewKept ==
  ASSUME LibraryType, Written, FileStep, NEW p \in Sides, ViewInv(p), view'[p] = view[p]
  PROVE  ViewInv(p)'
  <1> DEFINE v == view[p]
  <1>1. v.facts \in Facts /\ DOMAIN v.facts \subseteq Frames
        /\ v.left \subseteq Frames /\ DOMAIN v.entries \subseteq Frames
    BY ViewFields
  <1>2. ASSUME NEW f \in DOMAIN v.facts
        PROVE  /\ v.facts[f] <= file'[f].mtime /\ file'[f].bytes > 0
               /\ file'[f].bytes = 1 => v.facts[f] = file'[f].mtime
    <2>1. v.facts[f] \in Nat /\ f \in Frames
      BY <1>1, FactsElim
    <2>2. /\ v.facts[f] <= file[f].mtime /\ file[f].bytes > 0
          /\ file[f].bytes = 1 => v.facts[f] = file[f].mtime
      BY DEF ViewInv
    <2> QED
      BY <2>1, <2>2, FileMoves
  <1>3. ASSUME v.reading # <<>>
        PROVE  /\ v.reading[1] \in v.left
               /\ v.facts[v.reading[1]] = file'[v.reading[1]].mtime
                    => v.reading[2] = file'[v.reading[1]].bytes
    <2> DEFINE f == v.reading[1]
    <2>1. f \in v.left /\ v.left \subseteq DOMAIN v.facts
          /\ (v.facts[f] = file[f].mtime => v.reading[2] = file[f].bytes)
      BY <1>3 DEF ViewInv
    <2>2. f \in Frames /\ v.facts[f] \in Nat /\ v.facts[f] <= file[f].mtime
      BY <1>1, <2>1, FactsElim DEF ViewInv
    <2> HIDE DEF f
    <2>3. v.facts[f] = file'[f].mtime => v.reading[2] = file'[f].bytes
      BY <2>1, <2>2, FileMoves
    <2> QED
      BY <2>1, <2>3 DEF f
  <1>4. \A f \in v.left \union DOMAIN v.entries : Offered(f)'
    BY <1>1, OfferedStays DEF ViewInv
  <1>5. v.left \subseteq DOMAIN v.facts /\ (v.at # "hashing" => v.reading = <<>>)
    BY DEF ViewInv
  <1> HIDE DEF v
  <1>6. view'[p] = v
    BY DEF v
  <1> QED
    BY <1>2, <1>3, <1>4, <1>5, <1>6 DEF ViewInv

LEMMA ViewGone ==
  ASSUME NEW p \in Sides, view'[p] = NoView
  PROVE  ViewInv(p)'
  BY DEF ViewInv, NoView

(* One direction builds its manifest: the files and the other's are as before. *)
LEMMA ManifestType ==
  ASSUME LibraryType, NEW p \in Sides, ViewInv(p), Manifest(p)
  PROVE  /\ view' \in [Sides -> Views] /\ UNCHANGED <<file, clock>>
         /\ \A q \in Sides : q # p => view'[q] = view[q]
  <1>1. UNCHANGED <<file, clock>>
    BY DEF Manifest, Scan, Pick, HashHit, HashStart, HashEnd
  <1>2. view \in [Sides -> Views] /\ view[p] \in Views /\ file \in [Frames -> FileStates]
    BY DEF LibraryType
  <1>3. ASSUME \E w \in Views : view' = [view EXCEPT ![p] = w]
        PROVE  view' \in [Sides -> Views] /\ \A q \in Sides : q # p => view'[q] = view[q]
    BY <1>2, <1>3
  <1>4. CASE Scan(p)
    <2> DEFINE x == [f \in {g \in Frames : file[g].bytes > 0} |-> file[f].mtime]
               w == [NoView EXCEPT !.at = "scanned", !.facts = x]
    <2>1. x \in Facts
      <3>1. x \in [{g \in Frames : file[g].bytes > 0} -> Nat]
        BY <1>2 DEF FileStates
      <3> QED
        BY <3>1, FactsIntro
    <2>2. view' = [view EXCEPT ![p] = w]
      BY <1>4 DEF Scan
    <2> HIDE DEF x
    <2>3. w \in Views
      BY <2>1, NoViewType DEF Views
    <2> QED
      BY <1>1, <1>3, <2>2, <2>3
  <1>5. CASE Pick(p)
    <2>1. PICK S \in SUBSET DOMAIN view[p].facts :
            view' = [view EXCEPT ![p].at = "hashing", ![p].left = S]
      BY <1>5 DEF Pick
    <2>2. S \subseteq Frames
      BY ViewFields
    <2>3. [view[p] EXCEPT !.at = "hashing", !.left = S] \in Views
      BY <1>2, <2>2 DEF Views
    <2>4. view' = [view EXCEPT ![p] = [view[p] EXCEPT !.at = "hashing", !.left = S]]
      BY <1>2, <2>1
    <2> QED
      BY <1>1, <1>3, <2>3, <2>4
  <1>6. CASE \E f \in Frames : HashStart(p, f)
    <2>1. PICK f \in Frames : view' = [view EXCEPT ![p].reading = <<f, file[f].bytes>>]
      BY <1>6 DEF HashStart
    <2>2. file[f].bytes \in Digests
      BY <1>2 DEF FileStates
    <2>3. [view[p] EXCEPT !.reading = <<f, file[f].bytes>>] \in Views
      BY <1>2, <2>2 DEF Views
    <2>4. view' = [view EXCEPT ![p] = [view[p] EXCEPT !.reading = <<f, file[f].bytes>>]]
      BY <1>2, <2>1
    <2> QED
      BY <1>1, <1>3, <2>3, <2>4
  <1>7. CASE (\E f \in Frames : HashHit(p, f)) \/ HashEnd(p)
    <2>1. \E f \in Frames, d \in Bytes : view' = Entry(p, f, d)
      <3>1. CASE \E f \in Frames : HashHit(p, f)
        BY <3>1 DEF HashHit, Cached, LibraryType
      <3>2. CASE HashEnd(p)
        <4>1. view[p].reading[1] \in Frames
          BY <3>2, ViewFields DEF HashEnd
        <4>2. file[view[p].reading[1]].bytes \in Bytes
          BY <1>2, <4>1, ByteTypes DEF FileStates
        <4> QED
          BY <3>2, <4>1, <4>2, ByteTypes DEF HashEnd
      <3> QED
        BY <1>7, <3>1, <3>2
    <2> QED
      BY <1>1, <1>2, <2>1, EntryView
  <1> QED
    BY <1>4, <1>5, <1>6, <1>7 DEF Manifest

LEMMA ManifestKeeps ==
  ASSUME LibraryType, Written, NEW p \in Sides, ViewInv(p), Manifest(p)
  PROVE  ViewInv(p)'
  <1> DEFINE v == view[p]
  <1>1. UNCHANGED <<file, clock>> /\ view \in [Sides -> Views] /\ v \in Views
        /\ file \in [Frames -> FileStates]
    BY ManifestType DEF LibraryType
  <1>2. \A f \in Frames : /\ file[f].mtime \in Nat /\ file[f].bytes \in Nat
                          /\ file[f].settled => file[f].bytes > 0 /\ ~file[f].writing
    BY <1>1 DEF FileStates, Digests, Written
  <1>3. \A f \in Frames : (Offered(f)' <=> Offered(f)) /\ file'[f] = file[f]
    BY <1>1 DEF Offered, Torn
  <1>4. CASE Scan(p)
    <2> DEFINE x == [f \in {g \in Frames : file[g].bytes > 0} |-> file[f].mtime]
               w == [NoView EXCEPT !.at = "scanned", !.facts = x]
    <2>1. view'[p] = w
      BY <1>1, <1>4 DEF Scan
    <2>2. /\ DOMAIN x \subseteq Frames
          /\ \A f \in DOMAIN x : x[f] = file[f].mtime /\ file[f].bytes > 0
      OBVIOUS
    <2>3. \A f \in DOMAIN x : x[f] <= file[f].mtime
      BY <1>2, <2>2
    <2> HIDE DEF x
    <2>4. w.at = "scanned" /\ w.facts = x /\ w.left = {} /\ w.reading = <<>> /\ w.entries = <<>>
      BY DEF NoView
    <2> HIDE DEF w
    <2> QED
      BY <1>3, <2>1, <2>2, <2>3, <2>4 DEF ViewInv
  <1>5. CASE Pick(p)
    <2>1. PICK S \in SUBSET {f \in DOMAIN v.facts : IsFinal(f, v.facts[f])} :
            view' = [view EXCEPT ![p].at = "hashing", ![p].left = S]
      BY <1>5 DEF Pick
    <2> DEFINE w == [v EXCEPT !.at = "hashing", !.left = S]
    <2>2. view'[p] = w
      BY <1>1, <2>1
    <2>3. w.at = "hashing" /\ w.facts = v.facts /\ w.left = S /\ w.reading = v.reading
          /\ w.entries = v.entries
      BY <1>1 DEF Views
    <2>4. v.reading = <<>>
      BY <1>5 DEF Pick, ViewInv
    <2>5. \A f \in S : Offered(f)
      <3> TAKE f \in S
      <3>1. f \in DOMAIN v.facts /\ f \in Frames /\ IsFinal(f, v.facts[f])
        BY <2>1, ViewFields
      <3>2. file[f].bytes > 0 /\ (file[f].bytes = 1 => v.facts[f] = file[f].mtime)
        BY <3>1 DEF ViewInv
      <3> QED
        BY <1>2, <3>1, <3>2 DEF IsFinal, Offered, Torn
    <2>6. S \subseteq DOMAIN v.facts /\ \A f \in DOMAIN v.entries : Offered(f)
      BY <2>1 DEF ViewInv
    <2>7. /\ DOMAIN v.facts \subseteq Frames /\ DOMAIN v.entries \subseteq Frames
          /\ \A f \in DOMAIN v.facts :
               /\ v.facts[f] <= file[f].mtime /\ file[f].bytes > 0
               /\ file[f].bytes = 1 => v.facts[f] = file[f].mtime
      BY ViewFields DEF ViewInv
    <2> HIDE DEF v, w
    <2> QED
      BY <1>3, <2>2, <2>3, <2>4, <2>5, <2>6, <2>7 DEF ViewInv
  <1>6. CASE \E f \in Frames : HashStart(p, f)
    <2>1. PICK f \in Frames : HashStart(p, f)
      BY <1>6
    <2> DEFINE w == [v EXCEPT !.reading = <<f, file[f].bytes>>]
    <2>2. view'[p] = w /\ f \in v.left /\ v.at = "hashing"
      BY <1>1, <2>1 DEF HashStart, NextFact
    <2>3. w.at = v.at /\ w.facts = v.facts /\ w.left = v.left /\ w.reading = <<f, file[f].bytes>>
          /\ w.entries = v.entries
      BY <1>1 DEF Views
    <2>4. w.reading[1] = f /\ w.reading[2] = file[f].bytes
      BY <2>3
    <2>5. /\ DOMAIN v.facts \subseteq Frames /\ DOMAIN v.entries \subseteq Frames
          /\ v.left \subseteq DOMAIN v.facts
          /\ \A g \in v.left \union DOMAIN v.entries : Offered(g)
          /\ \A g \in DOMAIN v.facts :
               /\ v.facts[g] <= file[g].mtime /\ file[g].bytes > 0
               /\ file[g].bytes = 1 => v.facts[g] = file[g].mtime
      BY ViewFields DEF ViewInv
    <2> HIDE DEF v, w
    <2> QED
      BY <1>3, <2>1, <2>2, <2>3, <2>4, <2>5 DEF ViewInv
  <1>7. CASE (\E f \in Frames : HashHit(p, f)) \/ HashEnd(p)
    <2>1. \E f \in v.left, d \in Bytes : view' = Entry(p, f, d)
      <3>1. CASE \E f \in Frames : HashHit(p, f)
        BY <3>1 DEF HashHit, Cached, NextFact, LibraryType
      <3>2. CASE HashEnd(p)
        <4>1. v.reading[1] \in v.left /\ v.reading[1] \in Frames
          BY <3>2, ViewFields DEF HashEnd, ViewInv
        <4>2. file[v.reading[1]].bytes \in Bytes
          BY <1>1, <4>1, ByteTypes DEF FileStates
        <4> QED
          BY <3>2, <4>1, <4>2, ByteTypes DEF HashEnd
      <3> QED
        BY <1>7, <3>1, <3>2
    <2>2. PICK f \in v.left, d \in Bytes : view' = Entry(p, f, d)
      BY <2>1
    <2>3. f \in Frames
      BY ViewFields
    <2>4. /\ view'[p].at = v.at /\ view'[p].facts = v.facts
          /\ view'[p].left = v.left \ {f} /\ view'[p].reading = <<>>
          /\ DOMAIN view'[p].entries = DOMAIN v.entries \union {f}
      BY <1>1, <2>2, <2>3, EntryView
    <2>5. /\ DOMAIN v.facts \subseteq Frames /\ DOMAIN v.entries \subseteq Frames
          /\ v.left \subseteq DOMAIN v.facts
          /\ \A g \in v.left \union DOMAIN v.entries : Offered(g)
          /\ \A g \in DOMAIN v.facts :
               /\ v.facts[g] <= file[g].mtime /\ file[g].bytes > 0
               /\ file[g].bytes = 1 => v.facts[g] = file[g].mtime
      BY ViewFields DEF ViewInv
    <2> HIDE DEF v
    <2> QED
      BY <1>3, <2>2, <2>4, <2>5 DEF ViewInv
  <1> QED
    BY <1>4, <1>5, <1>6, <1>7 DEF Manifest

(* What is hashed is filed under the mtime of the scan: by then it may be an   *)
(* old one, never a newer one.                                                 *)
LEMMA ManifestCache ==
  ASSUME LibraryType, NEW p \in Sides, ViewInv(p), CacheInv, CacheTrue, Manifest(p)
  PROVE  CacheInv' /\ CacheTrue' /\ cache' \subseteq [frame : Frames, mtime : Nat, digest : Bytes]
  <1>1. UNCHANGED <<file, clock>> /\ cache \subseteq [frame : Frames, mtime : Nat, digest : Bytes]
        /\ file \in [Frames -> FileStates]
    BY ManifestType DEF LibraryType
  <1>2. CASE cache' = cache
    BY <1>1, <1>2 DEF CacheInv, CacheTrue
  <1>3. CASE HashEnd(p)
    <2> DEFINE f == view[p].reading[1]
               digest == IF file[f].bytes = view[p].reading[2] THEN file[f].bytes ELSE Mixed
               key == view[p].facts[f]
               c == [frame |-> f, mtime |-> key, digest |-> digest]
    <2>1. /\ f \in Frames /\ f \in DOMAIN view[p].facts
          /\ view[p].facts[f] = file[f].mtime => view[p].reading[2] = file[f].bytes
          /\ view[p].facts[f] <= file[f].mtime
      BY <1>3, ViewFields DEF HashEnd, ViewInv
    <2>2. key \in Nat /\ digest \in Bytes
      <3>1. key \in Nat
        BY <2>1, ViewFields, FactsElim
      <3>2. file[f].bytes \in Bytes
        BY <1>1, <2>1, ByteTypes DEF FileStates
      <3> QED
        BY <3>1, <3>2, ByteTypes
    <2>3. cache' \subseteq cache \union {c}
      BY <1>3 DEF HashEnd, CacheKey
    <2>4. c.frame = f /\ c.mtime = key /\ c.digest = digest
      OBVIOUS
    <2>5. c \in [frame : Frames, mtime : Nat, digest : Bytes]
      BY <2>1, <2>2
    <2>6. c.mtime <= file[c.frame].mtime
      BY <2>1, <2>4
    <2>7. c.mtime = file[c.frame].mtime => c.digest = file[c.frame].bytes
      BY <2>1, <2>4
    <2> HIDE DEF c
    <2>8. CacheInv'
      BY <1>1, <2>3, <2>6 DEF CacheInv
    <2>9. CacheTrue'
      BY <1>1, <2>3, <2>7 DEF CacheTrue
    <2> QED
      BY <1>1, <2>3, <2>5, <2>8, <2>9
  <1> QED
    BY <1>2, <1>3 DEF Manifest, Scan, Pick, HashHit, HashStart

LEMMA CacheKept ==
  ASSUME LibraryType, Written, FileStep, CacheInv, CacheTrue, cache' \subseteq cache
  PROVE  CacheInv' /\ CacheTrue'
  <1> SUFFICES ASSUME NEW c \in cache
               PROVE  /\ c.mtime <= file'[c.frame].mtime
                      /\ c.mtime = file'[c.frame].mtime => c.digest = file'[c.frame].bytes
    BY DEF CacheInv, CacheTrue
  <1>1. c.frame \in Frames /\ c.mtime \in Nat
    BY DEF LibraryType
  <1>2. /\ c.mtime <= file[c.frame].mtime
        /\ c.mtime = file[c.frame].mtime => c.digest = file[c.frame].bytes
    BY DEF CacheInv, CacheTrue
  <1>3. /\ file[c.frame].mtime \in Nat /\ file'[c.frame].mtime \in Nat
        /\ \/ file'[c.frame].mtime = file[c.frame].mtime /\ file'[c.frame].bytes = file[c.frame].bytes
           \/ file[c.frame].mtime < file'[c.frame].mtime
    BY <1>1, FileMoves
  <1> QED
    BY <1>1, <1>2, <1>3

LEMMA LibraryStart == Init => LibraryInv
  <1> HAVE Init
  <1>1. /\ setup \in Setups /\ clock = 0 /\ cache = {}
        /\ file = [f \in Frames |-> [bytes |-> 0, size |-> 0, mtime |-> 0, settled |-> FALSE,
                                     writing |-> FALSE]]
        /\ view = [p \in Sides |-> NoView]
    BY DEF Init, LibraryInit
  <1>2. LibraryType
    BY <1>1, NoViewType DEF LibraryType, FileStates, Digests
  <1>3. Written
    BY <1>1 DEF Written
  <1>4. \A p \in Sides : ViewInv(p)
    BY <1>1 DEF ViewInv, NoView
  <1> QED
    BY <1>1, <1>2, <1>3, <1>4 DEF LibraryInv, CacheInv, CacheTrue

LEMMA LibraryStep ==
  ASSUME LibraryInv, [Next]_vars
  PROVE  LibraryInv'
  <1> USE DEF LibraryInv
  <1>1. FileStep /\ Written' /\ setup' \in Setups
    BY FileEffect, WrittenStep, LibrarySteps DEF LibraryType
  <1>2. file' \in [Frames -> FileStates] /\ clock' \in Nat
    <2>1. \E F : file' = [f \in Frames |-> F[f]]
      <3>1. file' = file \/ (\E x : \E f \in Frames : file' = [file EXCEPT ![f] = x])
            \/ file' = [f \in Frames |-> [file[f] EXCEPT !.writing = FALSE]]
        BY LibrarySteps DEF WriterStep, WriteStart, WriteEnd, Write, Settle, Crash, Forgets, Manifest,
                            Scan, Pick, HashHit, HashStart, HashEnd, library
      <3> QED
        BY <3>1 DEF LibraryType
    <2> QED
      BY <1>1, <2>1 DEF FileStep
  <1>3. CASE \E p \in Sides : Manifest(p)
    <2>1. PICK p \in Sides : Manifest(p)
      BY <1>3
    <2>2. view' \in [Sides -> Views] /\ \A q \in Sides : q # p => view'[q] = view[q]
      BY <2>1, ManifestType
    <2>3. \A q \in Sides : ViewInv(q)'
      BY <1>1, <2>1, <2>2, ManifestKeeps, ViewKept
    <2> QED
      BY <1>1, <1>2, <2>1, <2>2, <2>3, ManifestCache DEF LibraryType
  <1>4. CASE ~\E p \in Sides : Manifest(p)
    <2>1. view' \in [Sides -> Views] /\ \A q \in Sides : view'[q] \in {view[q], NoView}
      BY <1>4, NoViewType, LibrarySteps
         DEF WriterStep, WriteStart, WriteEnd, Write, Settle, Crash, Forgets, Forget, library, LibraryType
    <2>2. cache' \subseteq cache
      BY <1>4, LibrarySteps
         DEF WriterStep, WriteStart, WriteEnd, Write, Settle, Crash, Forgets, library
    <2>3. \A q \in Sides : ViewInv(q)'
      BY <1>1, <2>1, ViewKept, ViewGone
    <2>4. CacheInv' /\ CacheTrue'
      BY <1>1, <2>2, CacheKept
    <2> QED
      BY <1>1, <1>2, <2>1, <2>2, <2>3, <2>4 DEF LibraryType
  <1> QED
    BY <1>3, <1>4

(* The cache never hides a rewrite, whatever was written while a frame was     *)
(* read and however the two directions interleave (manifest.hash_file's key is *)
(* the mtime of the scan).                                                     *)
THEOREM CacheTrueAlways == Spec => []CacheTrue
  <1>1. LibraryInv => CacheTrue
    BY DEF LibraryInv
  <1> QED
    BY <1>1, LibraryStart, LibraryStep, PTL DEF Spec

--------------------------------------------------------------------------------
(* What is on its way to a destination *)

PushMoving ==
  /\ \A f \in pass.left : Offered(f)
  /\ pass.copying # <<>> => Offered(pass.copying[1])
  /\ \A f \in Frames : dest[f] = 1 => Torn(f)

PullMoving ==
  /\ \A f \in agent.left : Offered(f)
  /\ agent.frame # <<>> => Offered(agent.frame[1])
  /\ \A f \in Frames : /\ part[f].bytes = 1 => Torn(f)
                       /\ pulled[f] = 1 => Torn(f)
                       /\ pulled[f] # Mixed

LEMMA PassTypes ==
  ASSUME pass \in Passes
  PROVE  /\ pass.left \subseteq Frames
         /\ pass.copying # <<>> => pass.copying[1] \in Frames /\ pass.copying[2] \in Digests
  <1>1. pass.left \subseteq Frames /\ pass.copying \in {<<>>} \union (Frames \X Digests)
    BY DEF Passes
  <1> QED
    BY <1>1

LEMMA AgentTypes ==
  ASSUME agent \in Agents
  PROVE  /\ agent.left \subseteq Frames
         /\ agent.frame # <<>> => agent.frame[1] \in Frames
  <1>1. agent.left \subseteq Frames /\ agent.frame \in {<<>>} \union {<<f>> : f \in Frames}
    BY DEF Agents
  <1> QED
    BY <1>1

(* What is found missing is in the manifest. *)
LEMMA TransfersListed ==
  ASSUME LibraryInv, NEW p \in Sides, NEW have
  PROVE  /\ Transfers(p, have) \subseteq DOMAIN view[p].entries
         /\ DOMAIN view[p].entries \subseteq Frames
         /\ \A f \in Transfers(p, have) : Offered(f)
  BY ViewFields DEF Transfers, LibraryInv, ViewInv

(* A step of the push direction's: how the pass and the destination move. *)
PassKept ==
  /\ pass' \in Passes /\ dest' = dest /\ pass'.left \subseteq pass.left
  /\ pass'.copying = pass.copying \/ pass'.copying = <<>>

PassLists ==
  /\ pass' \in Passes /\ dest' = dest /\ pass'.copying = pass.copying
  /\ \A f \in pass'.left : Offered(f)

PassCopies ==
  /\ pass' \in Passes /\ dest' = dest /\ pass'.left = pass.left
  /\ pass'.copying # <<>> /\ pass'.copying[1] \in pass.left

PassPuts ==
  /\ pass' \in Passes /\ pass'.left \subseteq pass.left /\ pass'.copying = <<>>
  /\ pass.copying # <<>>
  /\ LET f == pass.copying[1] IN
     \E b \in {file[f].bytes, Mixed} : dest' = [dest EXCEPT ![f] = b]

LEMMA PassEffect ==
  ASSUME LibraryInv, PushType, [Next]_vars
  PROVE  PassKept \/ PassLists \/ PassCopies \/ PassPuts
  <1>1. pass \in Passes /\ file \in [Frames -> FileStates]
    BY DEF PushType, LibraryInv, LibraryType
  <1>2. CASE pass' = pass /\ dest' = dest
    BY <1>1, <1>2 DEF PassKept
  <1>3. CASE pass' = NoPass /\ dest' = dest
    BY <1>3, NoPassType DEF PassKept, NoPass
  <1>4. CASE \E by \in {"tick", "now"} : Pass(by) /\ dest' = dest
    <2>1. PICK by \in {"tick", "now"} : pass' = [NoPass EXCEPT !.at = "source", !.by = by]
      BY <1>4 DEF Pass
    <2>2. pass' \in Passes /\ pass'.left = {} /\ pass'.copying = <<>>
      BY <2>1 DEF NoPass, Passes
    <2> QED
      BY <1>4, <2>2 DEF PassKept
  <1>5. CASE ScanFails \/ (DestManifest /\ ~online)
    <2>1. pass' = [pass EXCEPT !.at = "record", !.error = TRUE] /\ dest' = dest
      BY <1>5 DEF ScanFails, DestManifest
    <2>2. pass' \in Passes /\ pass'.left = pass.left /\ pass'.copying = pass.copying
      BY <1>1, <2>1 DEF Passes
    <2> QED
      BY <2>1, <2>2 DEF PassKept
  <1>6. CASE DestManifest /\ online
    <2> DEFINE S == Oldest(Transfers("push", dest))
    <2>1. pass' = [pass EXCEPT !.at = "put", !.left = S] /\ dest' = dest
      BY <1>6 DEF DestManifest
    <2>2. S \subseteq Transfers("push", dest) /\ "push" \in Sides
      BY DEF Oldest, Sides
    <2>3. S \subseteq Frames /\ \A f \in S : Offered(f)
      BY <2>2, TransfersListed
    <2> HIDE DEF S
    <2>4. pass' \in Passes /\ pass'.left = S /\ pass'.copying = pass.copying
      BY <1>1, <2>1, <2>3 DEF Passes
    <2> QED
      BY <2>1, <2>3, <2>4 DEF PassLists
  <1>7. CASE \E f \in Frames : PutStart(f)
    <2>1. PICK f \in Frames : PutStart(f)
      BY <1>7
    <2>2. pass' = [pass EXCEPT !.copying = <<f, file[f].bytes>>] /\ dest' = dest /\ f \in pass.left
      BY <2>1 DEF PutStart
    <2>3. file[f].bytes \in Digests
      BY <1>1 DEF FileStates
    <2>4. pass' \in Passes /\ pass'.left = pass.left /\ pass'.copying = <<f, file[f].bytes>>
      BY <1>1, <2>2, <2>3 DEF Passes
    <2>5. pass'.copying # <<>> /\ pass'.copying[1] = f
      BY <2>4
    <2> QED
      BY <2>2, <2>4, <2>5 DEF PassCopies
  <1>8. CASE PutEnd
    <2> DEFINE f == pass.copying[1]
    <2>1. pass' = [pass EXCEPT !.copying = <<>>, !.left = @ \ {f}] /\ pass.copying # <<>>
      BY <1>8 DEF PutEnd
    <2>2. \E b \in {file[f].bytes, Mixed} : dest' = [dest EXCEPT ![f] = b]
      BY <1>8 DEF PutEnd
    <2>3. pass' \in Passes /\ pass'.left \subseteq pass.left /\ pass'.copying = <<>>
      BY <1>1, <2>1 DEF Passes
    <2> QED
      BY <2>1, <2>2, <2>3 DEF PassPuts
  <1>9. CASE PutFails
    <2>1. /\ pass' = [pass EXCEPT !.copying = <<>>, !.left = @ \ {pass.copying[1]}, !.failed = TRUE]
          /\ dest' = dest
      BY <1>9 DEF PutFails
    <2>2. pass' \in Passes /\ pass'.left \subseteq pass.left /\ pass'.copying = <<>>
      BY <1>1, <2>1 DEF Passes
    <2> QED
      BY <2>1, <2>2 DEF PassKept
  <1>10. CASE Files \/ Saves \/ Crash \/ PullStep \/ Interrupted \/ UNCHANGED vars
    BY <1>2, <1>3, <1>10 DEF Files, Saves, SaveEnds, Crash, PullStep, Interrupted, PollStart,
       FetchManifest, OnePass, Download, Block, Commit, ShortRead, PollEnds, push, vars
  <1>11. CASE Runner
    <2>1. CASE PushStep
      BY <1>2, <1>3, <1>4, <1>5, <1>6, <1>7, <1>8, <1>9, <2>1
         DEF PushStep, Turn, PassManifest, Record, push
    <2>2. CASE ~PushStep
      BY <1>2, <1>4, <1>11, <2>2 DEF Runner, Debounce, SweepElapses, DestinationLost, DestinationBack,
         Tick, TickOff, Configure, PushNow, Ask
    <2> QED
      BY <2>1, <2>2
  <1> QED
    BY <1>10, <1>11 DEF Next

LEMMA PushMovingStep ==
  ASSUME LibraryInv, PushType, PushMoving, [Next]_vars
  PROVE  PushMoving' /\ pass' \in Passes /\ dest' \in [Frames -> Bytes]
  <1>1. FileStep /\ LibraryType
    BY FileEffect DEF LibraryInv
  <1>2. \A f \in Frames : (Offered(f) => Offered(f)') /\ (Torn(f) => Torn(f)')
    BY <1>1, OfferedStays
  <1>3. pass \in Passes /\ dest \in [Frames -> Bytes]
    BY DEF PushType
  <1>4. /\ pass.left \subseteq Frames
        /\ pass.copying # <<>> => pass.copying[1] \in Frames
    BY <1>3, PassTypes
  <1>5. CASE PassKept
    BY <1>2, <1>3, <1>4, <1>5 DEF PassKept, PushMoving
  <1>6. CASE PassLists
    <2>1. pass'.left \subseteq Frames
      BY <1>6 DEF PassLists, Passes
    <2> QED
      BY <1>2, <1>3, <1>4, <1>6, <2>1 DEF PassLists, PushMoving
  <1>7. CASE PassCopies
    BY <1>2, <1>3, <1>4, <1>7 DEF PassCopies, PushMoving
  <1>8. CASE PassPuts
    <2> DEFINE f == pass.copying[1]
    <2>1. f \in Frames /\ Offered(f)
      BY <1>4, <1>8 DEF PassPuts, PushMoving
    <2>2. PICK b \in {file[f].bytes, Mixed} : dest' = [dest EXCEPT ![f] = b]
      BY <1>8 DEF PassPuts
    <2>3. file[f].bytes \in Digests /\ b \in Bytes
      BY <1>1, <2>1, <2>2, ByteTypes DEF LibraryType, FileStates
    <2>4. b = 1 => Torn(f)
      <3>1. Mixed # 1
        BY DEF Mixed
      <3> QED
        BY <2>1, <2>2, <3>1 DEF Offered, Torn
    <2> HIDE DEF f
    <2>5. dest' \in [Frames -> Bytes] /\ \A g \in Frames : dest'[g] = 1 => Torn(g)
      BY <1>3, <2>1, <2>2, <2>3, <2>4 DEF PushMoving
    <2> QED
      BY <1>2, <1>4, <1>8, <2>5 DEF PassPuts, PushMoving
  <1> QED
    BY <1>5, <1>6, <1>7, <1>8, PassEffect

(* A step of the agent's: its list and its download, *)
AgentKept == agent' = agent \/ agent' = Resting

AgentLists ==
  /\ agent' \in Agents /\ agent'.at # "stream" /\ agent'.frame = agent.frame
  /\ \A f \in agent'.left : Offered(f)

AgentStreams ==
  /\ agent' \in Agents /\ agent'.left = agent.left /\ agent'.frame # <<>>
  /\ agent'.frame[1] \in agent.left

AgentLeaves ==
  /\ agent' \in Agents /\ agent'.at # "stream" /\ agent'.left \subseteq agent.left
  /\ agent'.frame = <<>>

AgentMoves == AgentKept \/ AgentLists \/ AgentStreams \/ AgentLeaves

(* and the files it writes: a block of what it streams, a rename of a .part    *)
(* that verified, or the removal of a .part.                                   *)
PartGrows ==
  /\ agent.frame # <<>> /\ pulled' = pulled
  /\ LET f == agent.frame[1] IN
     \E b \in {file[f].bytes, Mixed} :
       part' = [part EXCEPT ![f] = [len |-> part[f].len + 1, bytes |-> b]]

PartTaken ==
  /\ \E f \in Frames : /\ part[f].bytes # Mixed
                       /\ pulled' = [pulled EXCEPT ![f] = part[f].bytes]
                       /\ part' = [part EXCEPT ![f] = NoPart]

PartDropped == pulled' = pulled /\ \E f \in Frames : part' = [part EXCEPT ![f] = NoPart]

LEMMA FetchedType ==
  ASSUME agent \in Agents, NEW f, agent' = Fetched(f)
  PROVE  AgentLeaves
  BY DEF AgentLeaves, Fetched, Agents

LEMMA AgentEffect ==
  ASSUME LibraryInv, PullType, PullMoving, [Next]_vars
  PROVE  /\ AgentMoves
         /\ UNCHANGED <<part, pulled>> \/ PartGrows \/ PartTaken \/ PartDropped
  <1>1. agent \in Agents /\ (agent.at = "stream" => agent.frame # <<>>)
        /\ file \in [Frames -> FileStates]
    BY DEF PullType, LibraryInv, LibraryType
  <1>2. CASE (UNCHANGED agent \/ agent' = Resting) /\ UNCHANGED <<part, pulled>>
    BY <1>2 DEF AgentMoves, AgentKept
  <1>3. CASE PollStart
    <2>1. agent' = [agent EXCEPT !.at = "manifest"] /\ UNCHANGED <<part, pulled>>
      BY <1>3 DEF PollStart
    <2>2. agent' \in Agents /\ agent'.at = "manifest" /\ agent'.left = agent.left
          /\ agent'.frame = agent.frame
      BY <1>1, <2>1 DEF Agents
    <2> QED
      BY <2>1, <2>2 DEF AgentMoves, AgentLists, PullMoving
  <1>4. CASE OnePass
    <2> DEFINE S == Transfers("pull", pulled)
    <2>1. agent' = [agent EXCEPT !.at = "fetch", !.left = S] /\ UNCHANGED <<part, pulled>>
      BY <1>4 DEF OnePass
    <2>2. S \subseteq Frames /\ \A f \in S : Offered(f)
      BY TransfersListed DEF Sides
    <2> HIDE DEF S
    <2>3. agent' \in Agents /\ agent'.at = "fetch" /\ agent'.left = S /\ agent'.frame = agent.frame
      BY <1>1, <2>1, <2>2 DEF Agents
    <2> QED
      BY <2>1, <2>2, <2>3 DEF AgentMoves, AgentLists
  <1>5. CASE \E f \in Frames : Download(f)
    <2>1. PICK f \in Frames : Download(f)
      BY <1>5
    <2>2. f \in agent.left /\ UNCHANGED <<part, pulled>>
      BY <2>1 DEF Download
    <2>3. CASE agent' = Fetched(f)
      BY <1>1, <2>2, <2>3, FetchedType DEF AgentMoves
    <2>4. CASE agent' = [agent EXCEPT !.at = "stream", !.frame = <<f>>, !.upto = file[f].size]
      <3>1. file[f].size \in Nat
        BY <1>1 DEF FileStates
      <3>2. agent' \in Agents /\ agent'.left = agent.left /\ agent'.frame = <<f>>
        BY <1>1, <2>4, <3>1 DEF Agents
      <3>3. agent'.frame # <<>> /\ agent'.frame[1] = f
        BY <3>2
      <3> QED
        BY <2>2, <3>2, <3>3 DEF AgentMoves, AgentStreams
    <2> QED
      BY <2>1, <2>3, <2>4 DEF Download
  <1>6. CASE Block
    <2> DEFINE f == agent.frame[1]
    <2>1. /\ agent' = agent /\ pulled' = pulled /\ agent.frame # <<>>
          /\ \E b \in {file[f].bytes, Mixed} :
               part' = [part EXCEPT ![f] = [len |-> part[f].len + 1, bytes |-> b]]
      <3>1. agent' = agent /\ pulled' = pulled /\ agent.frame # <<>>
        BY <1>1, <1>6 DEF Block
      <3>2. f \in Frames
        BY <1>1, <3>1, AgentTypes
      <3>3. part' = [part EXCEPT ![f] = [len |-> part[f].len + 1,
               bytes |-> IF part[f].len = 0 \/ part[f].bytes = file[f].bytes THEN file[f].bytes ELSE Mixed]]
        BY <1>6, <3>2 DEF Block, PullType
      <3> QED
        BY <3>1, <3>3
    <2> QED
      BY <2>1 DEF AgentMoves, AgentKept, PartGrows
  <1>7. CASE Commit \/ ShortRead
    <2> DEFINE f == agent.frame[1]
    <2>1. f \in Frames /\ agent' = Fetched(f)
      BY <1>1, <1>7, AgentTypes DEF Commit, ShortRead
    <2>2. AgentMoves
      BY <1>1, <2>1, FetchedType DEF AgentMoves
    <2>3. PartTaken \/ PartDropped
      BY <1>7, <2>1 DEF Commit, ShortRead, Verifies, Rejected, PartTaken, PartDropped
    <2> QED
      BY <2>2, <2>3
  <1>8. CASE PullStep \/ Interrupted
    BY <1>2, <1>3, <1>4, <1>5, <1>6, <1>7, <1>8
       DEF PullStep, Interrupted, FetchManifest, PollEnds, pull
  <1>9. CASE Files \/ Saves \/ Crash \/ Runner \/ UNCHANGED vars
    BY <1>2, <1>9 DEF Files, Saves, Crash, Runner, pull, vars
  <1> QED
    BY <1>8, <1>9 DEF Next

LEMMA PullMovingStep ==
  ASSUME LibraryInv, PullType, PullMoving, [Next]_vars
  PROVE  PullMoving' /\ PullType'
  <1>1. FileStep /\ LibraryType
    BY FileEffect DEF LibraryInv
  <1>2. \A f \in Frames : (Offered(f) => Offered(f)') /\ (Torn(f) => Torn(f)')
    BY <1>1, OfferedStays
  <1>3. /\ agent \in Agents /\ (agent.at = "stream" => agent.frame # <<>>)
        /\ part \in [Frames -> [len : Nat, bytes : Bytes]] /\ pulled \in [Frames -> Bytes]
    BY DEF PullType
  <1>4. /\ agent.left \subseteq Frames
        /\ agent.frame # <<>> => agent.frame[1] \in Frames
    BY <1>3, AgentTypes
  <1>5. AgentMoves /\ (UNCHANGED <<part, pulled>> \/ PartGrows \/ PartTaken \/ PartDropped)
    BY AgentEffect
  <1>6. /\ agent' \in Agents /\ (agent'.at = "stream" => agent'.frame # <<>>)
        /\ \A f \in agent'.left : Offered(f)'
        /\ agent'.frame # <<>> => Offered(agent.frame[1])'
    <2>1. CASE AgentKept
      <3>1. CASE agent' = agent
        BY <1>2, <1>3, <1>4, <3>1 DEF PullMoving
      <3>2. CASE agent' = Resting
        BY <3>2, RestingType DEF Resting
      <3> QED
        BY <2>1, <3>1, <3>2 DEF AgentKept
    <2>2. CASE AgentLists
      <3>1. agent'.left \subseteq Frames
        BY <2>2 DEF AgentLists, Agents
      <3> QED
        BY <1>2, <1>4, <2>2, <3>1 DEF AgentLists, PullMoving
    <2>3. CASE AgentStreams
      BY <1>2, <1>4, <2>3 DEF AgentStreams, PullMoving
    <2>4. CASE AgentLeaves
      BY <1>2, <1>4, <2>4 DEF AgentLeaves, PullMoving
    <2> QED
      BY <1>5, <2>1, <2>2, <2>3, <2>4 DEF AgentMoves
  <1>7. Mixed # 1 /\ 0 # 1 /\ NoPart \in [len : Nat, bytes : Bytes] /\ NoPart.bytes = 0
    BY ByteTypes DEF Mixed, NoPart
  <1>8. /\ part' \in [Frames -> [len : Nat, bytes : Bytes]] /\ pulled' \in [Frames -> Bytes]
        /\ \A f \in Frames : /\ part'[f].bytes = 1 => Torn(f)
                             /\ pulled'[f] = 1 => Torn(f)
                             /\ pulled'[f] # Mixed
    <2>1. CASE UNCHANGED <<part, pulled>>
      BY <1>3, <2>1 DEF PullMoving
    <2>2. CASE PartGrows
      <3> DEFINE f == agent.frame[1]
      <3>1. f \in Frames /\ Offered(f) /\ pulled' = pulled
        BY <1>4, <2>2 DEF PartGrows, PullMoving
      <3>2. PICK b \in {file[f].bytes, Mixed} :
              part' = [part EXCEPT ![f] = [len |-> part[f].len + 1, bytes |-> b]]
        BY <2>2 DEF PartGrows
      <3>3. file[f].bytes \in Bytes /\ b \in Bytes
        BY <1>1, <3>1, ByteTypes DEF LibraryType, FileStates
      <3>4. b = 1 => Torn(f)
        BY <1>7, <3>1, <3>2 DEF Offered, Torn
      <3> HIDE DEF f
      <3> DEFINE x == [len |-> part[f].len + 1, bytes |-> b]
      <3>5. x \in [len : Nat, bytes : Bytes] /\ x.bytes = b
        BY <1>3, <3>1, <3>3
      <3> HIDE DEF x
      <3>6. part' = [part EXCEPT ![f] = x]
        BY <3>2 DEF x
      <3> QED
        BY <1>3, <3>1, <3>4, <3>5, <3>6 DEF PullMoving
    <2>3. CASE PartTaken
      <3>1. PICK f \in Frames : /\ part[f].bytes # Mixed
                                /\ pulled' = [pulled EXCEPT ![f] = part[f].bytes]
                                /\ part' = [part EXCEPT ![f] = NoPart]
        BY <2>3 DEF PartTaken
      <3>2. part[f].bytes \in Bytes
        BY <1>3
      <3> QED
        BY <1>3, <1>7, <3>1, <3>2 DEF PullMoving
    <2>4. CASE PartDropped
      BY <1>3, <1>7, <2>4 DEF PartDropped, PullMoving
    <2> QED
      BY <1>5, <2>1, <2>2, <2>3, <2>4
  <1>9. PullType'
    BY <1>6, <1>8 DEF PullType
  <1> QED
    BY <1>2, <1>6, <1>8, <1>9 DEF PullMoving

LEMMA PushTypeStep ==
  ASSUME LibraryInv, PushType, PushMoving, [Next]_vars
  PROVE  PushType'
  <1>1. pass' \in Passes /\ dest' \in [Frames -> Bytes]
    BY PushMovingStep
  <1>2. /\ enabled \in BOOLEAN /\ online \in BOOLEAN
        /\ poke \in {"none", "fresh", "due"} /\ sweepDue \in BOOLEAN
        /\ asked \subseteq {"tick", "now"} /\ alarmed \in BOOLEAN
        /\ failures \in 0 .. FailLoudAfter /\ faults \in 0 .. MaxFaults
    BY DEF PushType
  <1>3. faults' \in 0 .. MaxFaults
    <2>1. faults' = faults \/ Fault
      BY DEF Next, Files, Saves, SaveEnds, Crash, Runner, Debounce, SweepElapses, DestinationLost,
         DestinationBack, Tick, TickOff, Configure, PushNow, Ask, PushStep, Turn, PassManifest,
         ScanFails, DestManifest, PutStart, PutEnd, PutFails, Record, PullStep, Interrupted,
         PollStart, FetchManifest, OnePass, Download, Block, Commit, ShortRead, PollEnds, vars
    <2> QED
      BY <1>2, <2>1, ImagePushAssumption DEF Fault
  <1>4. failures' \in 0 .. FailLoudAfter /\ alarmed' \in BOOLEAN
    <2>1. UNCHANGED <<failures, alarmed>> \/ Record \/ (failures' = 0 /\ alarmed' = FALSE)
      BY DEF Next, Files, Saves, SaveEnds, Crash, Runner, Debounce, SweepElapses, DestinationLost,
         DestinationBack, Tick, TickOff, Configure, PushNow, Ask, PushStep, Turn, PassManifest,
         ScanFails, DestManifest, PutStart, PutEnd, PutFails, PullStep, Interrupted,
         PollStart, FetchManifest, OnePass, Download, Block, Commit, ShortRead, PollEnds, vars, push
    <2>2. ASSUME Record
          PROVE  failures' \in 0 .. FailLoudAfter /\ alarmed' \in BOOLEAN
      <3>1. failures' \in {0, failures} \/ (failures < FailLoudAfter /\ failures' = failures + 1)
        BY <2>2 DEF Record
      <3>2. failures' \in 0 .. FailLoudAfter
        BY <1>2, <3>1, ImagePushAssumption
      <3>3. alarmed' \in BOOLEAN
        <4>1. alarmed' = (failures' >= FailLoudAfter)
          BY <2>2 DEF Record
        <4>2. (failures' >= FailLoudAfter) \in BOOLEAN
          OBVIOUS
        <4> QED
          BY <4>1, <4>2
      <3> QED
        BY <3>2, <3>3
    <2>3. 0 \in 0 .. FailLoudAfter
      BY ImagePushAssumption
    <2> QED
      BY <1>2, <2>1, <2>2, <2>3
  <1>5. /\ enabled' \in BOOLEAN /\ online' \in BOOLEAN /\ sweepDue' \in BOOLEAN
        /\ asked' \subseteq {"tick", "now"} /\ poke' \in {"none", "fresh", "due"}
    <2>1. CASE Files \/ Saves \/ Crash \/ PullStep \/ Interrupted \/ UNCHANGED vars
      BY <1>2, <2>1 DEF Files, Saves, SaveEnds, Crash, PullStep, Interrupted, PollStart,
         FetchManifest, OnePass, Download, Block, Commit, ShortRead, PollEnds, push, vars
    <2>2. CASE PushStep
      BY <1>2, <2>2 DEF PushStep, Turn, Pass, PassManifest, ScanFails, DestManifest, PutStart, PutEnd,
         PutFails, Record, push
    <2>3. CASE Runner /\ ~PushStep
      BY <1>2, <2>3 DEF Runner, Debounce, SweepElapses, DestinationLost, DestinationBack,
         Tick, TickOff, Configure, PushNow, Ask, Pass
    <2> QED
      BY <2>1, <2>2, <2>3 DEF Next
  <1> QED
    BY <1>1, <1>3, <1>4, <1>5 DEF PushType

SyncInv == LibraryInv /\ PushType /\ PullType /\ PushMoving /\ PullMoving

LEMMA SyncCorrect == Spec => []SyncInv
  <1>1. Init => SyncInv
    <2> HAVE Init
    <2>1. LibraryInv
      BY LibraryStart
    <2>2. PushType /\ PushMoving
      <3>1. 0 \in Bytes /\ 0 # 1 /\ 0 \in 0 .. FailLoudAfter /\ 0 \in 0 .. MaxFaults
        BY ByteTypes, ImagePushAssumption
      <3>2. NoPass.left = {} /\ NoPass.copying = <<>>
        BY DEF NoPass
      <3>3. PushType
        BY <3>1, NoPassType DEF Init, PushInit, PushType
      <3>4. PushMoving
        BY <3>1, <3>2 DEF Init, PushInit, PushMoving
      <3> QED
        BY <3>3, <3>4
    <2>3. PullType /\ PullMoving
      BY RestingType, ByteTypes DEF Init, PullInit, PullType, PullMoving, Resting, NoPart
    <2> QED
      BY <2>1, <2>2, <2>3 DEF SyncInv
  <1>2. SyncInv /\ [Next]_vars => SyncInv'
    BY LibraryStep, PushMovingStep, PushTypeStep, PullMovingStep DEF SyncInv
  <1> QED
    BY <1>1, <1>2, PTL DEF Spec

(* Half of a first save reaches no destination under its final name, however   *)
(* long the scan, the hashing and the copying take and whatever is written     *)
(* meanwhile (manifest.is_final), and the agent renames no mixed download      *)
(* (sync_agent.download).                                                      *)
THEOREM NoTornCopyAlways == Spec => []NoTornCopy
  <1>1. SyncInv => NoTornCopy
    BY DEF SyncInv, PushMoving, PullMoving, NoTornCopy, Torn
  <1> QED
    BY <1>1, SyncCorrect, PTL

--------------------------------------------------------------------------------
(* The poke *)

(* A pass that is not running scans nothing, and a frame that was saved after  *)
(* the scan of a tick's pass has set the poke.                                 *)
Poked ==
  /\ pass.at = "idle" => pass.by = "none" /\ view["push"].at = "idle"
  /\ /\ pass.by = "tick" /\ view["push"].at # "idle"
     /\ \E f \in Frames : file[f].bytes >= 2 /\ f \notin DOMAIN view["push"].facts
     => poke # "none"

(* How a step touches the pass, its manifest and the poke: the pass is over;   *)
(* it builds its manifest; it starts; it goes on; or it is left alone.         *)
PassOver == pass' = NoPass /\ view'["push"] = NoView

PassScans ==
  /\ pass.at = "source" /\ pass' = pass /\ poke' = poke /\ UNCHANGED file
  /\ Manifest("push")

PassStarts == pass.at = "idle" /\ pass'.at = "source" /\ view'["push"] = view["push"]

PassGoesOn ==
  /\ (pass'.at = "idle" => pass.at = "idle") /\ pass'.by = pass.by
  /\ poke' = poke /\ UNCHANGED file /\ view'["push"] = view["push"]

PassAlone ==
  /\ pass' = pass /\ view'["push"] = view["push"]
  /\ poke # "none" => poke' # "none" \/ pass.by # "tick"
  /\ \A f \in Frames : file'[f].bytes >= 2 => file[f].bytes >= 2 \/ poke' # "none"

LEMMA WritePokes ==
  ASSUME LibraryInv, NEW f \in Frames, WriteStart(f) \/ Settle(f) \/ SaveEnds(f),
         poke' = poke \/ SaveEnds(f)
  PROVE  \A g \in Frames : file'[g].bytes >= 2 => file[g].bytes >= 2 \/ poke' # "none"
  <1>1. /\ file \in [Frames -> FileStates] /\ file[f].bytes \in Nat
        /\ file[f].writing => file[f].bytes \in {1, 3}
    BY DEF LibraryInv, LibraryType, Written, FileStates, Digests
  <1> SUFFICES ASSUME file'[f].bytes >= 2
               PROVE  file[f].bytes >= 2 \/ poke' # "none"
    BY <1>1 DEF WriteStart, Settle, SaveEnds, WriteEnd, Write
  <1>2. CASE Settle(f)
    BY <1>1, <1>2 DEF Settle, FileStates
  <1>3. CASE WriteStart(f)
    <2>1. file'[f].bytes = file[f].bytes + 1
      BY <1>1, <1>3 DEF WriteStart, Write
    <2> QED
      BY <1>1, <1>3, <2>1 DEF WriteStart
  <1>4. CASE SaveEnds(f)
    BY <1>1, <1>4 DEF SaveEnds, WriteEnd
  <1> QED
    BY <1>2, <1>3, <1>4

LEMMA PokeEffect ==
  ASSUME LibraryInv, PushType, [Next]_vars
  PROVE  PassOver \/ PassScans \/ PassStarts \/ PassGoesOn \/ PassAlone
  <1>1. /\ pass \in Passes /\ view \in [Sides -> Views] /\ "push" \in Sides /\ "pull" \in Sides
        /\ \A p \in Sides : ViewInv(p)
    BY DEF PushType, LibraryInv, LibraryType, Sides
  <1>2. ASSUME pass' = pass, view'["push"] = view["push"], file' = file,
               poke' = poke \/ pass.by # "tick" \/ poke' # "none"
        PROVE  PassAlone
    BY <1>2 DEF PassAlone
  <1>3. CASE Files
    <2>1. PICK f \in Frames : WriteStart(f) \/ Settle(f)
      BY <1>3 DEF Files
    <2>2. pass' = pass /\ poke' = poke /\ view' = view
      BY <1>3, <2>1 DEF Files, WriteStart, Settle, Write, push
    <2> QED
      BY <2>1, <2>2, WritePokes DEF PassAlone
  <1>4. CASE Saves
    <2>1. PICK f \in Frames : SaveEnds(f)
      BY <1>4 DEF Saves
    <2>2. pass' = pass /\ view' = view /\ (poke # "none" => poke' # "none")
      BY <2>1 DEF SaveEnds, WriteEnd, Write
    <2> QED
      BY <2>1, <2>2, WritePokes DEF PassAlone
  <1>5. CASE Crash
    BY <1>1, <1>5 DEF Crash, Forget, PassOver
  <1>6. CASE PullStep \/ Interrupted
    <2>1. pass' = pass /\ poke' = poke /\ file' = file
      BY <1>6 DEF PullStep, Interrupted, PollStart, FetchManifest, OnePass, Download, Block, Commit,
         ShortRead, PollEnds, push, library, Manifest, Scan, Pick, HashHit, HashStart, HashEnd
    <2>2. view' = view \/ Forget("pull") \/ Manifest("pull")
      BY <1>6 DEF PullStep, Interrupted, PollStart, FetchManifest, OnePass, Download, Block, Commit,
         ShortRead, PollEnds, library
    <2>3. view'["push"] = view["push"]
      <3>1. CASE Manifest("pull")
        BY <1>1, <3>1, ManifestType DEF LibraryInv
      <3>2. CASE view' = view \/ Forget("pull")
        BY <1>1, <3>2 DEF Forget
      <3> QED
        BY <2>2, <3>1, <3>2
    <2> QED
      BY <1>2, <2>1, <2>3
  <1>7. CASE PassManifest
    <2>1. UNCHANGED file
      BY <1>7 DEF PassManifest, Manifest, Scan, Pick, HashHit, HashStart, HashEnd
    <2> QED
      BY <1>7, <2>1 DEF PassManifest, push, PassScans
  <1>8. CASE Record
    BY <1>1, <1>8 DEF Record, Forget, PassOver
  <1>9. CASE \E by \in {"tick", "now"} : pass.at = "idle" /\ Pass(by) /\ UNCHANGED library
    BY <1>1, <1>9 DEF Pass, PassStarts, NoPass, library
  <1>10. CASE ScanFails \/ DestManifest \/ (\E f \in Frames : PutStart(f)) \/ PutEnd \/ PutFails
    <2>1. poke' = poke /\ UNCHANGED library
      BY <1>10 DEF ScanFails, DestManifest, PutStart, PutEnd, PutFails
    <2>2. pass'.by = pass.by
      BY <1>1, <1>10 DEF ScanFails, DestManifest, PutStart, PutEnd, PutFails, Passes
    <2>3. CASE ScanFails \/ DestManifest
      BY <1>1, <2>1, <2>2, <2>3 DEF ScanFails, DestManifest, PassGoesOn, library, Passes
    <2>4. CASE (\E f \in Frames : PutStart(f)) \/ PutEnd \/ PutFails
      <3>1. pass'.at = pass.at
        BY <1>1, <2>4 DEF PutStart, PutEnd, PutFails, Passes
      <3> QED
        BY <2>1, <2>2, <3>1 DEF PassGoesOn, library
    <2> QED
      BY <1>10, <2>3, <2>4
  <1>11. CASE Runner
    <2>1. CASE PushStep
      BY <1>7, <1>8, <1>9, <1>10, <2>1 DEF PushStep, Turn
    <2>2. CASE \/ Debounce \/ SweepElapses \/ DestinationLost \/ DestinationBack \/ TickOff
               \/ Configure
      BY <1>2, <2>2 DEF Debounce, SweepElapses, DestinationLost, DestinationBack, TickOff, Configure,
         library
    <2>3. CASE Tick \/ PushNow
      <3>1. PICK by \in {"tick", "now"} : Ask(by)
        BY <2>3 DEF Tick, PushNow
      <3> QED
        BY <1>2, <1>9, <3>1 DEF Ask, library
    <2> QED
      BY <1>11, <2>1, <2>2, <2>3 DEF Runner
  <1>12. CASE UNCHANGED vars
    BY <1>2, <1>12 DEF vars, library, push
  <1> QED
    BY <1>3, <1>4, <1>5, <1>6, <1>11, <1>12 DEF Next

LEMMA PokedStep ==
  ASSUME LibraryInv, PushType, Poked, [Next]_vars
  PROVE  Poked'
  <1>1. CASE PassOver
    BY <1>1 DEF PassOver, Poked, NoPass, NoView
  <1>2. CASE PassStarts
    BY <1>2 DEF PassStarts, Poked
  <1>3. CASE PassGoesOn
    BY <1>3 DEF PassGoesOn, Poked
  <1>4. CASE PassAlone
    BY <1>4 DEF PassAlone, Poked
  <1>5. CASE PassScans
    <2> DEFINE v == view["push"]  w == view'["push"]
    <2>1. /\ "push" \in Sides /\ v \in Views /\ view \in [Sides -> Views]
          /\ file \in [Frames -> FileStates] /\ UNCHANGED <<file, pass, poke>> /\ pass.at = "source"
      BY <1>5 DEF Sides, LibraryInv, LibraryType, PassScans
    <2>2. CASE Scan("push")
      <3> DEFINE x == [f \in {g \in Frames : file[g].bytes > 0} |-> file[f].mtime]
      <3>1. w.facts = x
        BY <2>1, <2>2 DEF Scan, NoView
      <3>2. \A f \in Frames : file[f].bytes \in Nat /\ (file[f].bytes >= 2 => f \in DOMAIN x)
        BY <2>1 DEF FileStates, Digests
      <3> QED
        BY <2>1, <3>1, <3>2 DEF Poked
    <2>3. CASE ~Scan("push")
      <3>1. w.facts = v.facts /\ v.at # "idle"
        <4>1. CASE Pick("push")
          BY <2>1, <4>1 DEF Pick, Views
        <4>2. CASE \E f \in Frames : HashStart("push", f)
          BY <2>1, <4>2 DEF HashStart, NextFact, Views
        <4>3. CASE (\E f \in Frames : HashHit("push", f)) \/ HashEnd("push")
          <5>1. v.at = "hashing"
            BY <2>1, <4>3 DEF HashHit, NextFact, HashEnd, LibraryInv, ViewInv
          <5>2. w.facts = v.facts
            <6>1. PICK f, d : view' = Entry("push", f, d)
              BY <4>3 DEF HashHit, HashEnd
            <6> QED
              BY <2>1, <6>1 DEF Entry, Views
          <5> QED
            BY <5>1, <5>2
        <4> QED
          BY <1>5, <2>3, <4>1, <4>2, <4>3 DEF PassScans, Manifest
      <3> QED
        BY <2>1, <3>1 DEF Poked
    <2> QED
      BY <2>2, <2>3
  <1> QED
    BY <1>1, <1>2, <1>3, <1>4, <1>5, PokeEffect

(* A tick's pass that ends while a frame saved after its scan waits leaves the *)
(* poke set, whichever way the pass, the saves and the operator's own passes   *)
(* interleave: _pass clears the poke before its scan, never after it.          *)
THEOREM PokeKeptAlways == Spec => PokeKept
  <1>1. Init => Poked
    BY DEF Init, PushInit, LibraryInit, Poked, NoPass, NoView, Sides
  <1>2. SyncInv /\ Poked /\ [Next]_vars => Poked'
    BY PokedStep DEF SyncInv
  <1>3. Poked =>
          (/\ pass.by = "tick" /\ pass'.at = "idle" /\ Record
           /\ view["push"].at # "idle"
           /\ \E f \in Frames : file[f].bytes >= 2 /\ f \notin DOMAIN view["push"].facts
           => poke' # "none")
    BY DEF Poked, Record, ClearsPoke
  <1> QED
    BY <1>1, <1>2, <1>3, SyncCorrect, PTL DEF Spec, PokeKept
================================================================================
