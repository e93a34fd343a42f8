----------------------------- MODULE ImageLibrary -----------------------------
(* The rig's frames as file sync sees them: files that are written in place    *)
(* (imaging/fitsio.py), and the manifest both directions of the sync are       *)
(* driven by (server/astrodeck/sync/manifest.py), with its shared hash cache.  *)
(*                                                                             *)
(* The bytes of a frame are numbered: 0 no file, 1 a first save in progress, 2 *)
(* the saved frame, 3 a WCS rewrite in progress, 4 the stamped frame.  A digest *)
(* is that number: equal digests are equal bytes.                              *)
EXTENDS Integers, FiniteSets

CONSTANTS
  Frames,
  Setups     \* the installations a behaviour may be of

(* sides: the directions in use; last: each frame's last bytes (0 never saved, *)
(* 2 saved, 4 stamped once); operator: whether somebody uses the settings.     *)
ASSUME ImageLibraryAssumption ==
  /\ IsFiniteSet(Frames)
  /\ Setups \subseteq [sides : SUBSET {"push", "pull"}, last : [Frames -> {0, 2, 4}],
                       operator : BOOLEAN]

VARIABLES
  setup,   \* the installation, one of Setups
  file,    \* [bytes, size, mtime, settled, writing] of each frame
  clock,   \* mtime of the last write
  cache,   \* SHARED_HASH_CACHE: [frame, mtime, digest]
  view     \* the manifest each direction is building

library == <<file, clock, cache, view>>

Sides == {"push", "pull"}
Mixed == 0 - 1        \* bytes read partly before and partly after a write

Digests == 0..4

(* view[p].at: "idle", "scanned" or "hashing".  facts are the mtimes the scan  *)
(* saw, left the frames still to hash, reading the one being hashed (with the  *)
(* bytes its read began with), entries the digests.                            *)
NoView == [at |-> "idle", facts |-> <<>>, left |-> {}, reading |-> <<>>, entries |-> <<>>]

LibraryInit ==
  /\ setup \in Setups
  /\ file = [f \in Frames |-> [bytes |-> 0, size |-> 0, mtime |-> 0, settled |-> FALSE,
                               writing |-> FALSE]]
  /\ clock = 0 /\ cache = {}
  /\ view = [p \in Sides |-> NoView]

-------------------------------------------------------------------------------
(* The writer *)

Write(f, size, writing) ==
  /\ clock' = clock + 1
  /\ file' = [file EXCEPT ![f] = [bytes |-> @.bytes + 1, size |-> size, mtime |-> clock + 1,
                                  settled |-> FALSE, writing |-> writing]]
  /\ UNCHANGED <<cache, view>>

(* writeto opens the final name, or a WCS stamp reopens a saved frame.         *)
WriteStart(f) ==
  /\ ~file[f].writing /\ file[f].bytes % 2 = 0 /\ file[f].bytes < setup.last[f]
  /\ Write(f, IF file[f].bytes = 0 THEN 1 ELSE file[f].size, TRUE)

(* The write returns.  A stamp keeps the size or adds a header block.          *)
WriteEnd(f) ==
  /\ file[f].writing
  /\ \E size \in {2, 3} : size >= file[f].size /\ (file[f].bytes = 1 => size = 2)
                          /\ Write(f, size, FALSE)

(* settle_s passes without a write; a write is much faster than that.          *)
Settle(f) ==
  /\ file[f].bytes > 0 /\ ~file[f].writing /\ ~file[f].settled
  /\ file' = [file EXCEPT ![f].settled = TRUE]
  /\ UNCHANGED <<clock, cache, view>>

-------------------------------------------------------------------------------
(* The manifest *)

(* gallery.scan and rig_facts *)
Scan(p) ==
  /\ view[p].at = "idle"
  /\ view' = [view EXCEPT ![p] = [NoView EXCEPT !.at = "scanned",
       !.facts = [f \in {g \in Frames : file[g].bytes > 0} |-> file[f].mtime]]]
  /\ UNCHANGED <<file, clock, cache>>

(* Mutant: whatever the scan saw is offered. *)
IsFinal_Always(f, mtime) == TRUE

(* is_final.  The age is that of the mtime scanned: of a frame written again   *)
(* since, it may or may not be enough.                                         *)
IsFinal(f, mtime) == file[f].mtime = mtime => file[f].settled

(* build: the frames that will be hashed are picked when `now` is read. *)
Pick(p) ==
  /\ view[p].at = "scanned"
  /\ LET facts == view[p].facts
         must == {f \in DOMAIN facts : file[f].mtime = facts[f] /\ IsFinal(f, facts[f])}
         may == {f \in DOMAIN facts : IsFinal(f, facts[f])}
     IN \E S \in SUBSET may :
          /\ must \subseteq S
          /\ view' = [view EXCEPT ![p].at = "hashing", ![p].left = S]
  /\ UNCHANGED <<file, clock, cache>>

Cached(f, mtime) == {c \in cache : c.frame = f /\ c.mtime = mtime}

Entry(p, f, digest) ==
  [view EXCEPT ![p].left = @ \ {f}, ![p].reading = <<>>,
               ![p].entries = [g \in DOMAIN @ \union {f} |-> IF g = f THEN digest ELSE @[g]]]

(* build goes through the facts in their order; here, oldest first. *)
NextFact(p, f) ==
  /\ view[p].at = "hashing" /\ f \in view[p].left /\ view[p].reading = <<>>
  /\ \A g \in view[p].left : view[p].facts[f] <= view[p].facts[g]

(* hash_file, the cache answers. *)
HashHit(p, f) ==
  /\ NextFact(p, f)
  /\ \E c \in Cached(f, view[p].facts[f]) : view' = Entry(p, f, c.digest)
  /\ UNCHANGED <<file, clock, cache>>

(* hash_file, the file is read. *)
HashStart(p, f) ==
  /\ NextFact(p, f)
  /\ Cached(f, view[p].facts[f]) = {}
  /\ view' = [view EXCEPT ![p].reading = <<f, file[f].bytes>>]
  /\ UNCHANGED <<file, clock, cache>>

(* Mutant: the digest is filed under the mtime the file has by then. *)
CacheKey_Now(p, f) == file[f].mtime

(* The key of the cache is the mtime of the scan. *)
CacheKey(p, f) == view[p].facts[f]

(* The digest of bytes that changed under the read is of no file. *)
HashEnd(p) ==
  /\ view[p].reading # <<>>
  /\ LET f == view[p].reading[1]
         digest == IF file[f].bytes = view[p].reading[2] THEN file[f].bytes ELSE Mixed
         key == CacheKey(p, f)
     IN /\ view' = Entry(p, f, digest)
        /\ cache' = {c \in cache : ~(c.frame = f /\ c.mtime = key)}
                      \union {[frame |-> f, mtime |-> key, digest |-> digest]}
  /\ UNCHANGED <<file, clock>>

Built(p) == view[p].at = "hashing" /\ view[p].left = {}

(* Mutant: only what is not there at all is sent. *)
Transfers_Missing(p, have) == {f \in DOMAIN view[p].entries : have[f] = 0}

(* diff: what p's destination, holding `have`, is missing or has wrong; mixed  *)
(* bytes are never twice the same.                                             *)
Transfers(p, have) ==
  {f \in DOMAIN view[p].entries : view[p].entries[f] = Mixed \/ have[f] # view[p].entries[f]}

(* The manifest is used up, or its builder is gone. *)
Forget(p) == view' = [view EXCEPT ![p] = NoView]

Manifest(p) ==
  \/ Scan(p) \/ Pick(p) \/ HashEnd(p)
  \/ \E f \in Frames : HashHit(p, f) \/ HashStart(p, f)
===============================================================================
