----------------------------- MODULE IconCache -----------------------------
(***************************************************************************)
(* The artwork of executables (process_icons/mod.rs): a cache that the     *)
(* render thread reads while it paints, and one worker that loads images.  *)
(* The count of outstanding requests bounds both channels, so the render   *)
(* thread never waits and the worker never blocks on a full channel; the   *)
(* count, the pending entries and the requests on their way must agree     *)
(* although entries are evicted, results come late and the worker may end. *)
(***************************************************************************)
EXTENDS Naturals, FiniteSets, Sequences, Functions

CONSTANTS Executables,   \* the keys that local_executable accepts
          Capacity, Outstanding, UploadsPerFrame,
          LastFrame, LastId    \* bounds: frames painted and requests made

ASSUME IconAssumption ==
  /\ IsFiniteSet(Executables)
  /\ {Capacity, Outstanding, UploadsPerFrame, LastFrame, LastId} \subseteq Nat \ {0}

VARIABLES icons,        \* Cache.entries: from a key to its entry
          frame, nextId,
          outstanding,  \* Cache.outstanding
          loader,       \* Cache.worker: "running", "ended" before it is noticed, or "none"
          asked,        \* the channel of requests
          loading,      \* the request the worker holds, or Unoccupied
          loaded,       \* the channel of results
          paintedNow    \* the textures painted in this frame, with the entry's key

iconVars == <<icons, frame, nextId, outstanding, loader, asked, loading, loaded, paintedNow>>

NoId == 0
Unoccupied == [id |-> NoId]
Request(id, key) == [id |-> id, key |-> key]
EmptyEntry == [texture |-> NoId, pending |-> NoId, due |-> TRUE, used |-> frame]

IconInit ==
  /\ icons = <<>> /\ frame = 0 /\ nextId = NoId /\ outstanding = 0
  /\ loader \in {"running", "none"}    \* none: the thread could not be started
  /\ asked = <<>> /\ loading = Unoccupied /\ loaded = <<>> /\ paintedNow = {}

Cached == DOMAIN icons
Pending == {key \in Cached : icons[key].pending # NoId}

Extended(entries, key) ==
  [k \in DOMAIN entries \cup {key} |-> IF k = key THEN EmptyEntry ELSE entries[k]]

(***************************************************************************)
(* Cache::poll at the start of a frame takes at most UploadsPerFrame       *)
(* results; if it takes fewer and the worker has ended it forgets it.      *)
(***************************************************************************)
Answered(entry, result) ==
  IF entry.pending # result.id THEN entry
  ELSE [entry EXCEPT !.pending = NoId, !.due = FALSE,
                     !.texture = IF result.image THEN result.id ELSE @]

Received(entries, result) ==
  IF result.key \notin DOMAIN entries THEN entries
  ELSE [entries EXCEPT ![result.key] = Answered(@, result)]

Uploaded(entries, results) ==
  LET after[n \in 0 .. Len(results)] ==
        IF n = 0 THEN entries ELSE Received(after[n - 1], results[n])
  IN  after[Len(results)]

(* The worker is forgotten without giving up the requests it held.         *)
OrphanedPending(entries) == entries

Orphaned(entries) == [key \in DOMAIN entries |-> [entries[key] EXCEPT !.pending = NoId]]

TakeLoaded(results) ==
  /\ outstanding' = IF outstanding < Len(results) THEN 0 ELSE outstanding - Len(results)
  /\ icons' = Uploaded(icons, results)
  /\ UNCHANGED loader

LoseWorker(results) ==
  /\ loader' = "none"
  /\ outstanding' = 0
  /\ icons' = Orphaned(Uploaded(icons, results))

BeginFrame ==
  /\ frame < LastFrame
  /\ frame' = frame + 1 /\ paintedNow' = {}
  /\ IF loader = "none" THEN UNCHANGED <<icons, outstanding, loader, loaded>>
     ELSE LET taken   == IF Len(loaded) < UploadsPerFrame THEN Len(loaded) ELSE UploadsPerFrame
              results == SubSeq(loaded, 1, taken)
          IN  /\ loaded' = SubSeq(loaded, taken + 1, Len(loaded))
              /\ IF loader = "ended" /\ taken < UploadsPerFrame
                 THEN LoseWorker(results) ELSE TakeLoaded(results)
  /\ UNCHANGED <<nextId, asked, loading>>

(***************************************************************************)
(* Cache::texture, when a row is painted: the entry is made if it has to   *)
(* be, evicting the one unused for longest; a due entry sends a request.   *)
(***************************************************************************)

Evictable == {key \in Cached : icons[key].pending = NoId /\ icons[key].used # frame}

Victims == {key \in Evictable : \A other \in Evictable : icons[key].used <= icons[other].used}

EntriesWithout(victim) == [key \in Cached \ {victim} |-> icons[key]]

(* The entries in which `key' has its place: none, if there is no worker   *)
(* to ask or no entry may be evicted, and the row shows the fallback.      *)
Rooms(key) ==
  CASE key \in Cached -> {icons}
    [] key \notin Cached /\ loader = "none" -> {}
    [] OTHER -> IF Cardinality(Cached) < Capacity THEN {Extended(icons, key)}
                ELSE {Extended(EntriesWithout(victim), key) : victim \in Victims}

AskFor(key, entries) ==
  LET entry == [entries[key] EXCEPT !.used = frame]
      asks  == entry.pending = NoId /\ entry.due /\ outstanding < Outstanding /\ loader # "none"
      sent  == asks /\ loader = "running" /\ Len(asked) < Outstanding    \* try_send
  IN  /\ nextId' = IF asks THEN nextId + 1 ELSE nextId
      /\ asked' = IF sent THEN Append(asked, Request(nextId + 1, key)) ELSE asked
      /\ outstanding' = IF sent THEN outstanding + 1 ELSE outstanding
      /\ icons' = [entries EXCEPT ![key] = IF sent THEN [entry EXCEPT !.pending = nextId + 1]
                                           ELSE entry]
      /\ paintedNow' = IF entry.texture = NoId THEN paintedNow
                    ELSE paintedNow \cup {<<key, entry.texture>>}

Paint(key) ==
  /\ nextId < LastId
  /\ \E entries \in Rooms(key) : AskFor(key, entries)
  /\ UNCHANGED <<frame, loader, loading, loaded>>

(* RETRY after a failure and REFRESH after an image run out.               *)
FallDue(key) ==
  /\ icons[key].pending = NoId /\ ~icons[key].due
  /\ icons' = [icons EXCEPT ![key].due = TRUE]
  /\ UNCHANGED <<frame, nextId, outstanding, loader, asked, loading, loaded, paintedNow>>

(***************************************************************************)
(* The worker.  The loader is foreign code and may panic, which drops the  *)
(* channels: what was asked is lost, what was loaded can still be taken.   *)
(***************************************************************************)
Load ==
  /\ loader = "running" /\ loading = Unoccupied /\ asked # <<>>
  /\ loading' = Head(asked) /\ asked' = Tail(asked)
  /\ UNCHANGED <<icons, frame, nextId, outstanding, loader, loaded, paintedNow>>

Deliver ==
  /\ loader = "running" /\ loading # Unoccupied
  /\ Len(loaded) < Outstanding
  /\ \E image \in BOOLEAN :
       loaded' = Append(loaded, [id |-> loading.id, key |-> loading.key, image |-> image])
  /\ loading' = Unoccupied
  /\ UNCHANGED <<icons, frame, nextId, outstanding, loader, asked, paintedNow>>

LoadPanics ==
  /\ loader = "running" /\ loading # Unoccupied
  /\ loader' = "ended" /\ loading' = Unoccupied /\ asked' = <<>>
  /\ UNCHANGED <<icons, frame, nextId, outstanding, loaded, paintedNow>>

IconNext == BeginFrame \/ Load \/ Deliver \/ LoadPanics
            \/ (\E key \in Executables : Paint(key)) \/ (\E key \in Cached : FallDue(key))

IconSpec == IconInit /\ [][IconNext]_iconVars

(***************************************************************************)
(* While the worker lives, every pending entry has exactly one request on  *)
(* its way, every request has its entry, and the count is their number, so *)
(* neither channel overflows; without a worker nothing is awaited.  No     *)
(* texture painted in this frame has been evicted in it (mod.rs 125-240).  *)
(***************************************************************************)
OnTheWay == Range(asked) \cup ({loading} \ {Unoccupied}) \cup {Request(r.id, r.key) : r \in Range(loaded)}

CountedOnce ==
  /\ loader = "running" =>
       /\ OnTheWay = {Request(icons[key].pending, key) : key \in Pending}
       /\ outstanding = Cardinality(Pending)
       /\ outstanding = Len(asked) + Len(loaded) + (IF loading = Unoccupied THEN 0 ELSE 1)
       /\ outstanding <= Outstanding
  /\ loader = "none" => Pending = {} /\ outstanding = 0
  /\ Cardinality(Cached) <= Capacity

PaintedIsHeld == \A p \in paintedNow : p[1] \in Cached /\ icons[p[1]].texture = p[2]

(* What the cache counts is what is under way, and what it paints it holds. *)
IconsAreAccounted == CountedOnce /\ PaintedIsHeld
=============================================================================
