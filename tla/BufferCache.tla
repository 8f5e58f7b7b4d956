----------------------------- MODULE BufferCache -----------------------------
(***************************************************************************)
(* How the capture thread finds the pixels of the framebuffer that is      *)
(* scanned out (Capturer in kms/cpu_capture.rs).  It asks the CRTC for the *)
(* framebuffer, the kernel for a GEM handle of its buffer object, and looks*)
(* the handle up in a cache of memory maps; a miss asks for a handle again,*)
(* maps the object, and evicts the oldest map when the cache is full.  All *)
(* the while the compositor flips, and replaces framebuffers between any   *)
(* two of these steps.                                                     *)
(*                                                                         *)
(* A map shows the object it was made of for as long as it exists; handles *)
(* are numbers the kernel hands out again once they are closed.            *)
(***************************************************************************)
EXTENDS Naturals, Sequences, FiniteSets

CONSTANTS
  Objects,     \* buffer objects
  NoObject,
  Fbs,         \* framebuffer ids, Capturer's fb_key
  NoFb,        \* no framebuffer
  Handles,     \* bound: the GEM handles of this process
  CacheSize,   \* MAX_CACHE_ENTRIES, 16
  Prime,       \* the objects whose PRIME export can be mapped
  Dumb,        \* the objects that can be mapped through the card
  Tiled,       \* the objects with a non-linear modifier
  HasFb2,      \* the driver has GET_FB2
  AllowVaapi   \* allow_vaapi_readback

ASSUME CacheAssumption ==
  /\ NoObject \notin Objects /\ NoFb \notin Fbs
  /\ Prime \subseteq Objects /\ Dumb \subseteq Objects /\ Tiled \subseteq Objects
  /\ CacheSize \in Nat \ {0}
  /\ HasFb2 \in BOOLEAN /\ AllowVaapi \in BOOLEAN

VARIABLES
  fbs,      \* the object of each framebuffer, or NoObject
  scanout,  \* the framebuffer of the CRTC, or NoFb
  kernel,   \* "fresh": every query opens a handle; "shared": one to an object
  recycled, \* a capture's framebuffer got another object than it had looked up
  handles,  \* the object of each handle of this process, or NoObject
  pc,       \* capture_into: "idle", "query", "lookup", "fb2", "fb1" (map_fb1)
  default_fb,
  fb,       \* fb_handle
  gem,      \* current_gem
  lastKey,  \* last_fb_key, or NoFb
  useFb2,   \* use_fb2 and use_prime: "unknown", "yes" or "no"
  usePrime,
  cache,    \* memory maps, oldest first: [handle, object]
  vaapi,    \* vaapi_cache: [handle, object]
  shown,    \* the objects fb had since this capture asked for it
  result    \* the object whose pixels the last capture copied

screen  == <<fbs, scanout, kernel, recycled>>
latches == <<useFb2, usePrime>>
capture == <<pc, default_fb, fb, gem, lastKey>>
vars    == <<screen, handles, capture, latches, cache, vaapi, shown, result>>

Entry == [handle : Handles, object : Objects]

TypeOK ==
  /\ fbs \in [Fbs -> Objects \cup {NoObject}]
  /\ scanout \in Fbs \cup {NoFb} /\ kernel \in {"fresh", "shared"}
  /\ recycled \in BOOLEAN
  /\ handles \in [Handles -> Objects \cup {NoObject}]
  /\ pc \in {"idle", "query", "lookup", "fb2", "fb1"}
  /\ default_fb \in Fbs /\ fb \in Fbs /\ gem \in Handles
  /\ lastKey \in Fbs \cup {NoFb}
  /\ useFb2 \in {"unknown", "yes", "no"} /\ usePrime \in {"unknown", "yes", "no"}
  /\ cache \in Seq(Entry) /\ Len(cache) <= CacheSize
  /\ vaapi \in Seq(Entry) /\ Len(vaapi) <= CacheSize
  /\ shown \subseteq Objects /\ result \in Objects \cup {NoObject}

\* probe_outputs took the framebuffer that was scanned out as the default.
Init ==
  /\ fbs \in [Fbs -> Objects] /\ scanout \in Fbs
  /\ kernel \in {"fresh", "shared"} /\ recycled = FALSE
  /\ handles = [h \in Handles |-> NoObject]
  /\ pc = "idle" /\ default_fb = scanout /\ fb = scanout /\ gem \in Handles
  /\ lastKey = NoFb
  /\ useFb2 = "unknown" /\ usePrime = "unknown"
  /\ cache = <<>> /\ vaapi = <<>> /\ shown = {} /\ result = NoObject

-----------------------------------------------------------------------------
(* The compositor and the kernel, which are not part of the program. *)

\* Another framebuffer is scanned out, or none.
Flip ==
  /\ scanout' \in {f \in Fbs : fbs[f] # NoObject} \cup {NoFb}
  /\ UNCHANGED <<fbs, kernel, recycled, handles, capture, latches, cache, vaapi,
                 shown, result>>

\* A framebuffer that is not scanned out is removed, or its id is used for
\* another object: also one that is just being captured.
Replace(f) ==
  /\ f # scanout
  /\ \E o \in Objects \cup {NoObject} : fbs' = [fbs EXCEPT ![f] = o]
  /\ IF pc # "idle" /\ f = fb
       THEN shown' = (shown \cup {fbs'[f]}) \ {NoObject}
       ELSE shown' = shown
  /\ recycled' = (recycled \/ (/\ pc \notin {"idle", "query"} /\ f = fb
                              /\ fbs'[f] \notin {handles[gem], NoObject}))
  /\ UNCHANGED <<scanout, kernel, handles, capture, latches, cache, vaapi, result>>

\* The kernel opens handle h for object o, or returns the one that is open.
Opens(tbl, h, o) ==
  \/ tbl[h] = NoObject /\ (kernel = "shared" => \A g \in Handles : tbl[g] # o)
  \/ kernel = "shared" /\ tbl[h] = o

Opened(tbl, h, o) == [tbl EXCEPT ![h] = o]

-----------------------------------------------------------------------------
(* The capture thread. *)

\* capture_into: get_crtc.  The same framebuffer as last time is skipped.
Begin ==
  /\ pc = "idle" /\ pc' = "query"
  /\ fb' = IF scanout = NoFb THEN default_fb ELSE scanout
  /\ fb' # lastKey /\ lastKey' = fb'
  /\ shown' = {fbs[fb']} \ {NoObject} /\ result' = NoObject
  /\ UNCHANGED <<screen, handles, default_fb, gem, latches, cache, vaapi>>

\* Mutant of Queried: the handle is closed once its number is known.
QueriedAndClosed(h, o) == [Opened(handles, h, o) EXCEPT ![h] = NoObject]

\* The handle the query opened stays open.
Queried(h, o) == Opened(handles, h, o)

\* get_gem_handle: GET_FB2, or else GET_FB.
QueryHandle ==
  /\ pc = "query" /\ fbs[fb] # NoObject
  /\ \E h \in Handles :
       /\ Opens(handles, h, fbs[fb])
       /\ gem' = h
       /\ handles' = Queried(h, fbs[fb])
  /\ pc' = "lookup"
  /\ UNCHANGED <<screen, default_fb, fb, lastKey, latches, cache, vaapi, shown,
                 result>>

\* The framebuffer is gone, or of a bounded number no handle is left.
NothingToOpen == fbs[fb] = NoObject \/ ~\E h \in Handles : Opens(handles, h, fbs[fb])

\* An error ends the capture, after last_fb_key was set.
Fails(next) ==
  /\ pc' = next /\ shown' = (IF next = "idle" THEN {} ELSE shown)
  /\ UNCHANGED <<screen, default_fb, fb, gem, lastKey, latches, cache, result>>

QueryFails ==
  pc = "query" /\ NothingToOpen /\ Fails("idle") /\ UNCHANGED <<handles, vaapi>>

Hits(s) == {i \in DOMAIN s : s[i].handle = gem}

\* The first entry with the handle, of vaapi_cache before cache, gives the
\* pixels.
Hit ==
  /\ pc = "lookup" /\ Hits(vaapi) \cup Hits(cache) # {}
  /\ LET s == IF Hits(vaapi) # {} THEN vaapi ELSE cache IN
       \E i \in Hits(s) :
         (\A j \in Hits(s) : i <= j) /\ result' = s[i].object
  /\ pc' = "idle"
  /\ UNCHANGED <<screen, handles, default_fb, fb, gem, lastKey, latches, cache,
                 vaapi, shown>>

\* kmsvnc_vaapi_capture or the conversion fails.
HitFails ==
  /\ pc = "lookup" /\ Hits(vaapi) \cup Hits(cache) # {}
  /\ Fails("idle") /\ UNCHANGED <<handles, vaapi>>

\* map_buffer is called, which tries map_fb2 unless map_fb1 was latched.
Miss ==
  /\ pc = "lookup" /\ Hits(vaapi) \cup Hits(cache) = {}
  /\ pc' = IF useFb2 = "no" THEN "fb1" ELSE "fb2"
  /\ UNCHANGED <<screen, handles, default_fb, fb, gem, lastKey, latches, cache,
                 vaapi, shown, result>>

\* map_gem_cached: how object o is mapped, after what was latched.
MapsWith(o) ==
  IF usePrime # "no" /\ o \in Prime THEN "prime"
  ELSE IF usePrime # "yes" /\ o \in Dumb THEN "dumb" ELSE "fails"

\* GET_FB2 serves objects with a linear modifier.
Fb2Serves(o) == HasFb2 /\ o \notin Tiled

\* Mutant of Evicted: the handle of the oldest map is closed, the map kept.
EvictedHandleOnly(s) == s

\* The oldest entry makes room.
Evicted(s) == IF Len(s) >= CacheSize THEN Tail(s) ELSE s

\* evict_entry closes the handle of the entry.
ClosedByEviction(tbl) ==
  IF Len(cache) >= CacheSize THEN [tbl EXCEPT ![Head(cache).handle] = NoObject]
  ELSE tbl

\* GET_FB2 or GET_FB opens handle h for the object, and the dumb path a second
\* one k of its own (GEM_FLINK, GEM_OPEN).
OpensTwo(h, k, o) == Opens(handles, h, o) /\ Opens(Opened(handles, h, o), k, o)

\* map_fb2 or map_fb1 maps the object, which latches the ways it took.  The new
\* map goes into the cache, also when convert_full fails.
MapAndKeep ==
  /\ fbs[fb] # NoObject /\ MapsWith(fbs[fb]) # "fails"
  /\ \/ pc = "fb2" /\ Fb2Serves(fbs[fb]) /\ useFb2' = "yes"
     \/ pc = "fb1" /\ useFb2' = "no"
  /\ LET o == fbs[fb] IN
       /\ \E h \in Handles, k \in Handles :
            /\ IF MapsWith(o) = "prime" THEN Opens(handles, h, o) /\ k = h
                                        ELSE OpensTwo(h, k, o)
            /\ handles' = ClosedByEviction(Opened(Opened(handles, h, o), k, o))
            /\ cache' = Append(Evicted(cache), [handle |-> k, object |-> o])
       /\ usePrime' = IF MapsWith(o) = "prime" THEN "yes" ELSE "no"
       /\ result' \in {o, NoObject}
  /\ pc' = "idle"
  /\ UNCHANGED <<screen, default_fb, fb, gem, lastKey, vaapi, shown>>

\* map_fb2's last resort: the object is imported into VAAPI.  Its handle stays
\* open when the import is dropped.
Imports ==
  /\ pc = "fb2" /\ AllowVaapi
  /\ fbs[fb] # NoObject /\ Fb2Serves(fbs[fb]) /\ MapsWith(fbs[fb]) = "fails"
  /\ \E h \in Handles, k \in Handles :
       /\ Opens(handles, h, fbs[fb]) /\ (k = h \/ OpensTwo(h, k, fbs[fb]))
       /\ handles' = Opened(Opened(handles, h, fbs[fb]), k, fbs[fb])
       /\ vaapi' = Append(Evicted(vaapi), [handle |-> h, object |-> fbs[fb]])

ImportVaapi ==
  /\ Imports
  /\ useFb2' = "yes" /\ result' = fbs[fb] /\ pc' = "idle"
  /\ UNCHANGED <<screen, default_fb, fb, gem, lastKey, usePrime, cache, shown>>

\* What follows an error: map_fb2's is final once it was latched.
AfterError == IF pc = "fb2" /\ useFb2 # "yes" THEN "fb1" ELSE "idle"

\* The import is kept, but the first capture from it fails.
ImportFails == Imports /\ Fails(AfterError)

\* No handle is opened, or one or two are before something fails: the modifier,
\* a format GET_FB does not tell, the map, VAAPI.
MapFails ==
  /\ pc \in {"fb2", "fb1"} /\ Fails(AfterError) /\ UNCHANGED vaapi
  /\ \/ /\ NothingToOpen \/ (pc = "fb2" /\ ~HasFb2)
        /\ UNCHANGED handles
     \/ /\ fbs[fb] # NoObject /\ (pc = "fb2" => HasFb2)
        /\ \E h \in Handles, k \in Handles :
             /\ Opens(handles, h, fbs[fb]) /\ (k = h \/ OpensTwo(h, k, fbs[fb]))
             /\ handles' = Opened(Opened(handles, h, fbs[fb]), k, fbs[fb])

Capture ==
  \/ Begin \/ QueryHandle \/ QueryFails \/ Hit \/ HitFails \/ Miss
  \/ MapAndKeep \/ ImportVaapi \/ ImportFails \/ MapFails

Next == Flip \/ (\E f \in Fbs : Replace(f)) \/ Capture

Spec == Init /\ [][Next]_vars

-----------------------------------------------------------------------------
(* Properties. *)

\* Handles tell objects apart: every query opens a new one, or an object has one
\* handle and no capture mapped its framebuffer after the id had gone to another
\* object than the one looked up.
Identified == kernel = "shared" => ~recycled

\* Every cached map has its handle open on the object it maps, so that the kernel
\* cannot hand out the number of a handle in the cache for another object: as
\* long as handles tell objects apart.
HandlesPinned ==
  Identified => \A i \in DOMAIN cache : handles[cache[i].handle] = cache[i].object

\* The pixels a capture copies are those of an object its framebuffer had
\* since the capture asked for it, never of one it had before: whatever was
\* evicted, closed or numbered anew, no stale map is used as long as handles
\* tell objects apart.
NoStaleMap ==
  Identified /\ pc = "idle" /\ result # NoObject => result \in shown

\* The same without that condition ("to detect fb_handle recycling", the comment
\* on get_gem_handle).
RecyclingDetected ==
  pc = "idle" /\ result # NoObject => result \in shown

\* A buffer with a non-linear modifier is never read through a memory map
\* ("tiled buffers cannot be read via mmap").
TiledNeverMapped == \A i \in DOMAIN cache : cache[i].object \notin Tiled
=============================================================================
