-------------------------- MODULE BufferCacheProofs --------------------------
(***************************************************************************)
(* Theorems about BufferCache, for every number of objects, framebuffers   *)
(* and handles, every size of the cache, and every mix of objects that can *)
(* be mapped by PRIME, through the card, by VAAPI, or not at all.          *)
(***************************************************************************)
EXTENDS BufferCache, TLAPS

-----------------------------------------------------------------------------
(* The inductive invariant. *)

\* Every entry of a cache has its handle open on the object it shows.
Pinned(s) == \A i \in DOMAIN s : handles[s[i].handle] = s[i].object

\* Handle h is in a cache.
HandleIn(h, s) == \E i \in DOMAIN s : s[i].handle = h

\* No handle is in a cache twice.
Distinct(s) == \A i, j \in DOMAIN s : s[i].handle = s[j].handle => i = j

\* Closing the handle of an evicted entry closes that of no other entry, in
\* either cache.
CacheInv ==
  /\ Pinned(cache) /\ Pinned(vaapi)
  /\ Distinct(cache) /\ Distinct(vaapi)
  /\ \A i \in DOMAIN cache : ~HandleIn(cache[i].handle, vaapi)

\* No object has two handles.
OneHandleEach(tbl) ==
  \A g, h \in Handles : tbl[g] = tbl[h] /\ tbl[g] # NoObject => g = h

SharedInv == kernel = "shared" => OneHandleEach(handles)

\* Until the capture ends the framebuffer has an object it had since it began, and
\* once a handle was looked up that is open on one of them, with a sharing kernel
\* on the one the framebuffer has or had.  A handle that missed is in no cache;
\* while map_fb1 follows a failed import, it may be in vaapi_cache, of an object
\* that cannot be mapped.
CaptureInv ==
  /\ pc # "idle" => result = NoObject /\ fbs[fb] \in shown \cup {NoObject}
  /\ pc \in {"lookup", "fb2", "fb1"} =>
       /\ handles[gem] \in shown
       /\ kernel = "shared" => fbs[fb] \in {handles[gem], NoObject}
  /\ pc \in {"fb2", "fb1"} => ~HandleIn(gem, cache)
  /\ pc = "fb2" => ~HandleIn(gem, vaapi)
  /\ pc = "fb1" /\ HandleIn(gem, vaapi) => MapsWith(handles[gem]) = "fails"

\* The last capture copied an object of its framebuffer.
ResultInv == pc = "idle" /\ result # NoObject => result \in shown

MapsInv == CacheInv /\ SharedInv /\ CaptureInv /\ ResultInv

\* All of it holds as long as handles tell objects apart.
BufferInv == TypeOK /\ (Identified => MapsInv)

-----------------------------------------------------------------------------
(* Handles and caches. *)

\* Opening a handle makes it a handle of the object, changes no other and none
\* that is open, and gives no object a second one where handles are shared.
LEMMA OpensOne ==
  ASSUME NEW tbl \in [Handles -> Objects \cup {NoObject}], NEW h \in Handles,
         NEW o \in Objects, Opens(tbl, h, o)
  PROVE  /\ Opened(tbl, h, o) \in [Handles -> Objects \cup {NoObject}]
         /\ Opened(tbl, h, o)[h] = o
         /\ \A g \in Handles : g # h => Opened(tbl, h, o)[g] = tbl[g]
         /\ \A g \in Handles : tbl[g] # NoObject => Opened(tbl, h, o)[g] = tbl[g]
         /\ kernel = "shared" /\ OneHandleEach(tbl) => OneHandleEach(Opened(tbl, h, o))
<1>1. /\ Opened(tbl, h, o) \in [Handles -> Objects \cup {NoObject}]
      /\ Opened(tbl, h, o)[h] = o
      /\ \A g \in Handles : g # h => Opened(tbl, h, o)[g] = tbl[g]
  BY DEF Opened
<1>2. tbl[h] \in {NoObject, o}
  BY DEF Opens
<1>3. kernel = "shared" => tbl[h] = o \/ \A g \in Handles : tbl[g] # o
  BY DEF Opens
<1>4. QED
  BY <1>1, <1>2, <1>3 DEF OneHandleEach

\* The same for two handles, which may be one.
LEMMA OpensBoth ==
  ASSUME TypeOK, NEW h \in Handles, NEW k \in Handles, NEW o \in Objects,
         Opens(handles, h, o), k = h \/ OpensTwo(h, k, o)
  PROVE  LET tbl == Opened(Opened(handles, h, o), k, o)
         IN  /\ tbl \in [Handles -> Objects \cup {NoObject}]
             /\ tbl[h] = o /\ tbl[k] = o
             /\ \A g \in Handles : g \notin {h, k} => tbl[g] = handles[g]
             /\ \A g \in Handles : handles[g] # NoObject => tbl[g] = handles[g]
             /\ kernel = "shared" /\ OneHandleEach(handles) => OneHandleEach(tbl)
<1> USE CacheAssumption
<1> DEFINE mid == Opened(handles, h, o)
           tbl == Opened(mid, k, o)
<1>1. handles \in [Handles -> Objects \cup {NoObject}]
  BY DEF TypeOK
<1>2. /\ mid \in [Handles -> Objects \cup {NoObject}] /\ mid[h] = o
      /\ \A g \in Handles : g # h => mid[g] = handles[g]
      /\ \A g \in Handles : handles[g] # NoObject => mid[g] = handles[g]
      /\ kernel = "shared" /\ OneHandleEach(handles) => OneHandleEach(mid)
  BY <1>1, OpensOne
<1> HIDE DEF mid
<1>3. CASE k = h
  <2>1. tbl = mid
    BY <1>2, <1>3 DEF Opened
  <2>2. QED
    BY <1>2, <1>3, <2>1 DEF mid
<1>4. CASE OpensTwo(h, k, o)
  <2>1. Opens(mid, k, o)
    BY <1>4 DEF OpensTwo, mid
  <2>2. /\ tbl \in [Handles -> Objects \cup {NoObject}] /\ tbl[k] = o
        /\ \A g \in Handles : g # k => tbl[g] = mid[g]
        /\ \A g \in Handles : mid[g] # NoObject => tbl[g] = mid[g]
        /\ kernel = "shared" /\ OneHandleEach(mid) => OneHandleEach(tbl)
    BY <1>2, <2>1, OpensOne
  <2> HIDE DEF tbl
  <2>3. QED
    BY <1>2, <2>2 DEF mid, tbl
<1>5. QED
  BY <1>3, <1>4

\* What an entry of a cache has.
LEMMA EntryFields ==
  ASSUME NEW s \in Seq(Entry), NEW i \in DOMAIN s
  PROVE  s[i] \in Entry /\ s[i].handle \in Handles /\ s[i].object \in Objects
<1>1. s[i] \in Entry
  OBVIOUS
<1>2. QED
  BY <1>1 DEF Entry

\* An eviction takes at most the first entry away.
LEMMA EvictedEntries ==
  ASSUME NEW s \in Seq(Entry), Len(s) <= CacheSize
  PROVE  LET d == IF Len(s) >= CacheSize THEN 1 ELSE 0
         IN  /\ Evicted(s) \in Seq(Entry)
             /\ Len(Evicted(s)) = Len(s) - d
             /\ Len(Evicted(s)) < CacheSize
             /\ \A i \in DOMAIN Evicted(s) :
                  i + d \in DOMAIN s /\ Evicted(s)[i] = s[i + d]
<1> USE CacheAssumption
<1>1. CASE Len(s) >= CacheSize
  <2>1. s # <<>>
    BY <1>1
  <2>2. QED
    BY <1>1, <2>1 DEF Evicted
<1>2. CASE ~(Len(s) >= CacheSize)
  BY <1>2 DEF Evicted
<1>3. QED
  BY <1>1, <1>2

\* A cache after an eviction and with a new entry: its handles are the new one
\* and old ones, each once, and the handle of the evicted entry is not in it.
LEMMA KeptEntries ==
  ASSUME NEW s \in Seq(Entry), Len(s) <= CacheSize, Distinct(s),
         NEW e \in Entry, ~HandleIn(e.handle, s)
  PROVE  LET n == Append(Evicted(s), e)
         IN  /\ n \in Seq(Entry) /\ Len(n) <= CacheSize
             /\ Distinct(n)
             /\ \A i \in DOMAIN n :
                  \/ n[i] = e
                  \/ \E j \in DOMAIN s :
                       n[i] = s[j] /\ (Len(s) >= CacheSize => j # 1)
<1> DEFINE d == IF Len(s) >= CacheSize THEN 1 ELSE 0
           n == Append(Evicted(s), e)
<1> USE CacheAssumption
<1>1. /\ Evicted(s) \in Seq(Entry) /\ Len(Evicted(s)) = Len(s) - d
      /\ Len(Evicted(s)) < CacheSize
      /\ \A i \in DOMAIN Evicted(s) :
           i + d \in DOMAIN s /\ Evicted(s)[i] = s[i + d]
  BY EvictedEntries
<1> HIDE DEF d
<1>0. d \in Nat /\ (Len(s) >= CacheSize => d = 1)
  BY DEF d
<1>2. /\ n \in Seq(Entry) /\ Len(n) = Len(Evicted(s)) + 1
      /\ \A i \in DOMAIN n :
           \/ i = Len(n) /\ n[i] = e
           \/ i \in DOMAIN Evicted(s) /\ n[i] = Evicted(s)[i]
  BY <1>1
<1> HIDE DEF n
<1>3. Len(n) <= CacheSize
  BY <1>1, <1>2
<1>4. \A i \in DOMAIN n :
        \/ i = Len(n) /\ n[i] = e
        \/ i + d \in DOMAIN s /\ n[i] = s[i + d]
  BY <1>1, <1>2
<1>5. Distinct(n)
  <2> SUFFICES ASSUME NEW i \in DOMAIN n, NEW j \in DOMAIN n,
                      n[i].handle = n[j].handle
               PROVE  i = j
    BY DEF Distinct
  <2>1. i \in Nat /\ j \in Nat
    BY <1>2
  <2>2. QED
    BY <1>0, <1>4, <2>1 DEF Distinct, HandleIn
<1>6. \A i \in DOMAIN n :
        \/ n[i] = e
        \/ \E j \in DOMAIN s : n[i] = s[j] /\ (Len(s) >= CacheSize => j # 1)
  <2> SUFFICES ASSUME NEW i \in DOMAIN n, n[i] # e
               PROVE  \E j \in DOMAIN s :
                        n[i] = s[j] /\ (Len(s) >= CacheSize => j # 1)
    OBVIOUS
  <2>1. i + d \in DOMAIN s /\ n[i] = s[i + d]
    BY <1>4
  <2>2. i \in Nat \ {0}
    BY <1>2
  <2>3. QED
    BY <1>0, <2>1, <2>2
<1>7. QED
  BY <1>2, <1>3, <1>5, <1>6 DEF n

\* A cache after an eviction and with a new entry is one.
LEMMA KeptTypes ==
  ASSUME NEW s \in Seq(Entry), Len(s) <= CacheSize, NEW e \in Entry
  PROVE  Append(Evicted(s), e) \in Seq(Entry) /\ Len(Append(Evicted(s), e)) <= CacheSize
<1>1. Evicted(s) \in Seq(Entry) /\ Len(Evicted(s)) < CacheSize
  BY EvictedEntries
<1>2. Len(Append(Evicted(s), e)) = Len(Evicted(s)) + 1
  BY <1>1
<1>3. QED
  BY <1>1, <1>2, CacheAssumption

\* A map_fb2 or map_fb1 that opens a handle opens one that is in no cache, but for
\* an object whose import failed; a sharing kernel returns the current handle.
LEMMA MissedHandle ==
  ASSUME TypeOK, MapsInv, pc \in {"fb2", "fb1"}, fbs[fb] # NoObject,
         NEW h \in Handles, Opens(handles, h, fbs[fb])
  PROVE  /\ ~HandleIn(h, cache)
         /\ pc = "fb2" \/ MapsWith(fbs[fb]) # "fails" => ~HandleIn(h, vaapi)
         /\ kernel = "shared" => h = gem /\ handles[gem] = fbs[fb]
<1> USE CacheAssumption
<1>1. CASE kernel = "shared"
  <2>1. handles[gem] = fbs[fb]
    BY <1>1 DEF MapsInv, CaptureInv
  <2>2. handles[h] = fbs[fb]
    BY <1>1, <2>1 DEF Opens, TypeOK
  <2>3. h = gem
    BY <1>1, <2>1, <2>2 DEF MapsInv, SharedInv, OneHandleEach, TypeOK
  <2>4. QED
    BY <2>1, <2>3 DEF MapsInv, CaptureInv
<1>2. CASE kernel # "shared"
  <2>1. handles[h] = NoObject
    BY <1>2 DEF Opens
  <2>2. /\ \A i \in DOMAIN cache : cache[i].object # NoObject
        /\ \A i \in DOMAIN vaapi : vaapi[i].object # NoObject
    BY EntryFields DEF TypeOK
  <2>3. /\ \A i \in DOMAIN cache : handles[cache[i].handle] # NoObject
        /\ \A i \in DOMAIN vaapi : handles[vaapi[i].handle] # NoObject
    BY <2>2 DEF MapsInv, CacheInv, Pinned
  <2>4. QED
    BY <1>2, <2>1, <2>3 DEF HandleIn
<1>3. QED
  BY <1>1, <1>2

\* The same for two handles.
LEMMA MissedHandles ==
  ASSUME TypeOK, MapsInv, pc \in {"fb2", "fb1"}, fbs[fb] # NoObject,
         NEW h \in Handles, NEW k \in Handles, Opens(handles, h, fbs[fb]),
         k = h \/ OpensTwo(h, k, fbs[fb])
  PROVE  \A g \in {h, k} :
           /\ ~HandleIn(g, cache)
           /\ pc = "fb2" \/ MapsWith(fbs[fb]) # "fails" => ~HandleIn(g, vaapi)
           /\ kernel = "shared" => g = gem
<1>1. Opens(handles, k, fbs[fb]) \/ k = h
  BY DEF OpensTwo, Opens, Opened, TypeOK
<1>2. QED
  BY <1>1, MissedHandle

\* Opening handles takes none away from a map.
LEMMA CachesStayPinned ==
  ASSUME TypeOK, CacheInv, UNCHANGED <<cache, vaapi>>,
         \A g \in Handles : handles[g] # NoObject => handles'[g] = handles[g]
  PROVE  CacheInv'
<1>1. ASSUME NEW t \in {cache, vaapi}, NEW i \in DOMAIN t, Pinned(t)
      PROVE  handles'[t[i].handle] = t[i].object
  <2>1. t[i].handle \in Handles /\ t[i].object # NoObject
    BY EntryFields, CacheAssumption DEF TypeOK
  <2>2. QED
    BY <1>1, <2>1 DEF Pinned
<1>2. QED
  BY <1>1 DEF CacheInv, Pinned, Distinct, HandleIn

-----------------------------------------------------------------------------
(* The types. *)

\* Two handles are opened, and the caches keep their bound.
LEMMA TypesOfMapAndKeep == TypeOK /\ MapAndKeep => TypeOK'
<1> SUFFICES ASSUME TypeOK, MapAndKeep PROVE TypeOK'
  OBVIOUS
<1> USE CacheAssumption
<1> DEFINE o == fbs[fb]
<1>1. /\ o \in Objects /\ pc' = "idle" /\ result' \in {o, NoObject}
      /\ useFb2' \in {"yes", "no"} /\ usePrime' \in {"yes", "no"}
      /\ UNCHANGED <<screen, default_fb, fb, gem, lastKey, vaapi, shown>>
  BY DEF MapAndKeep, TypeOK
<1>2. PICK h \in Handles, k \in Handles :
        /\ Opens(handles, h, o) /\ (k = h \/ OpensTwo(h, k, o))
        /\ handles' = ClosedByEviction(Opened(Opened(handles, h, o), k, o))
        /\ cache' = Append(Evicted(cache), [handle |-> k, object |-> o])
  BY DEF MapAndKeep, OpensTwo
<1>3. Opened(Opened(handles, h, o), k, o) \in [Handles -> Objects \cup {NoObject}]
  BY <1>1, <1>2, OpensBoth
<1>4. handles' \in [Handles -> Objects \cup {NoObject}]
  BY <1>2, <1>3 DEF ClosedByEviction
<1>5. [handle |-> k, object |-> o] \in Entry
  BY <1>1 DEF Entry
<1>6. cache' \in Seq(Entry) /\ Len(cache') <= CacheSize
  BY <1>2, <1>5, KeptTypes DEF TypeOK
<1> HIDE DEF o
<1>7. QED
  BY <1>1, <1>4, <1>6 DEF TypeOK, screen, o

\* So they are when an object is imported.
LEMMA TypesOfImports ==
  ASSUME TypeOK, Imports
  PROVE  /\ handles' \in [Handles -> Objects \cup {NoObject}]
         /\ vaapi' \in Seq(Entry) /\ Len(vaapi') <= CacheSize
<1> USE CacheAssumption
<1> DEFINE o == fbs[fb]
<1>1. o \in Objects
  BY DEF Imports, TypeOK
<1>2. PICK h \in Handles, k \in Handles :
        /\ Opens(handles, h, o) /\ (k = h \/ OpensTwo(h, k, o))
        /\ handles' = Opened(Opened(handles, h, o), k, o)
        /\ vaapi' = Append(Evicted(vaapi), [handle |-> h, object |-> o])
  BY DEF Imports
<1>3. handles' \in [Handles -> Objects \cup {NoObject}]
  BY <1>1, <1>2, OpensBoth
<1>4. [handle |-> h, object |-> o] \in Entry
  BY <1>1 DEF Entry
<1>5. QED
  BY <1>2, <1>3, <1>4, KeptTypes DEF TypeOK

\* A failed map leaves the caches as they were.
LEMMA TypesOfMapFails == TypeOK /\ MapFails => TypeOK'
<1> SUFFICES ASSUME TypeOK, MapFails PROVE TypeOK'
  OBVIOUS
<1> USE CacheAssumption
<1>1. /\ pc' \in {"idle", "fb1"} /\ shown' \in {{}, shown}
      /\ UNCHANGED <<screen, default_fb, fb, gem, lastKey, latches, cache, vaapi,
                     result>>
  BY DEF MapFails, Fails, AfterError
<1>2. CASE UNCHANGED handles
  BY <1>1, <1>2 DEF TypeOK, screen, latches
<1>3. CASE handles' # handles
  <2> DEFINE o == fbs[fb]
  <2>1. PICK h \in Handles, k \in Handles :
          /\ o # NoObject
          /\ Opens(handles, h, o) /\ (k = h \/ OpensTwo(h, k, o))
          /\ handles' = Opened(Opened(handles, h, o), k, o)
    BY <1>3 DEF MapFails
  <2>2. o \in Objects
    BY <2>1 DEF TypeOK
  <2>3. handles' \in [Handles -> Objects \cup {NoObject}]
    BY <2>1, <2>2, OpensBoth
  <2>4. QED
    BY <1>1, <2>3 DEF TypeOK, screen, latches
<1>4. QED
  BY <1>2, <1>3

\* Every step keeps the types.
LEMMA TypesNext == TypeOK /\ [Next]_vars => TypeOK'
<1> SUFFICES ASSUME TypeOK, [Next]_vars PROVE TypeOK'
  OBVIOUS
<1> USE CacheAssumption DEF screen, latches
<1>1. CASE Flip
  BY <1>1 DEF Flip, TypeOK, capture
<1>2. ASSUME NEW f \in Fbs, Replace(f) PROVE TypeOK'
  <2>1. PICK o \in Objects \cup {NoObject} : fbs' = [fbs EXCEPT ![f] = o]
    BY <1>2 DEF Replace
  <2>2. fbs' \in [Fbs -> Objects \cup {NoObject}]
    BY <2>1 DEF TypeOK
  <2>3. shown' \subseteq Objects /\ recycled' \in BOOLEAN
    BY <1>2, <2>2 DEF Replace, TypeOK
  <2>4. QED
    BY <1>2, <2>2, <2>3 DEF Replace, TypeOK, capture
<1>3. CASE Begin
  BY <1>3 DEF Begin, TypeOK
<1>4. CASE QueryHandle
  <2> DEFINE o == fbs[fb]
  <2>1. o \in Objects
    BY <1>4 DEF QueryHandle, TypeOK
  <2>2. PICK h \in Handles : handles' = Opened(handles, h, o) /\ gem' = h
    BY <1>4 DEF QueryHandle, Queried
  <2>3. handles' \in [Handles -> Objects \cup {NoObject}]
    BY <2>1, <2>2 DEF Opened, TypeOK
  <2>4. QED
    BY <1>4, <2>2, <2>3 DEF QueryHandle, TypeOK
<1>5. CASE QueryFails \/ HitFails
  BY <1>5 DEF QueryFails, HitFails, Fails, TypeOK
<1>6. CASE Hit
  <2>1. result' \in Objects
    <3>1. \E s \in {cache, vaapi} : \E i \in DOMAIN s : result' = s[i].object
      BY <1>6 DEF Hit, Hits
    <3>2. QED
      BY <3>1, EntryFields DEF TypeOK
  <2>2. QED
    BY <1>6, <2>1 DEF Hit, TypeOK
<1>7. CASE Miss
  BY <1>7 DEF Miss, TypeOK
<1>8. CASE MapAndKeep
  BY <1>8, TypesOfMapAndKeep
<1>9. CASE ImportVaapi
  <2>1. fbs[fb] \in Objects
    BY <1>9 DEF ImportVaapi, Imports, TypeOK
  <2>2. QED
    BY <1>9, <2>1, TypesOfImports DEF ImportVaapi, TypeOK
<1>10. CASE ImportFails
  BY <1>10, TypesOfImports DEF ImportFails, Fails, AfterError, TypeOK
<1>11. CASE MapFails
  BY <1>11, TypesOfMapFails
<1>12. CASE UNCHANGED vars
  BY <1>12 DEF vars, capture, TypeOK
<1>13. QED
  BY <1>1, <1>2, <1>3, <1>4, <1>5, <1>6, <1>7, <1>8, <1>9, <1>10, <1>11, <1>12
  DEF Next, Capture

-----------------------------------------------------------------------------
(* The invariant is inductive. *)

\* Initially no handle is open and the caches are empty.
LEMMA BufferInvInit == Init => BufferInv
<1> SUFFICES ASSUME Init PROVE BufferInv
  OBVIOUS
<1> USE CacheAssumption DEF Init
<1>1. <<>> \in Seq(Entry) /\ Len(<<>>) = 0 /\ DOMAIN <<>> = {}
  OBVIOUS
<1>2. TypeOK
  <2>1. /\ fbs \in [Fbs -> Objects \cup {NoObject}]
        /\ handles \in [Handles -> Objects \cup {NoObject}]
    OBVIOUS
  <2>2. recycled \in BOOLEAN
    OBVIOUS
  <2>3. QED
    BY <1>1, <2>1, <2>2 DEF TypeOK
<1>3. CacheInv /\ SharedInv
  BY <1>1 DEF CacheInv, Pinned, Distinct, HandleIn, SharedInv, OneHandleEach
<1>4. CaptureInv /\ ResultInv
  BY DEF CaptureInv, ResultInv
<1>5. QED
  BY <1>2, <1>3, <1>4 DEF BufferInv, MapsInv

\* Another framebuffer, or another object for one that is not scanned out: for the
\* one being captured only before its handle is asked for, or with a kernel that
\* opens a new handle each time.
LEMMA ScreenKeeps ==
  ASSUME TypeOK, MapsInv, Identified', Flip \/ \E f \in Fbs : Replace(f)
  PROVE  MapsInv'
<1>1. UNCHANGED <<kernel, handles, capture, usePrime, cache, vaapi, result>>
  BY DEF Flip, Replace, latches
<1>2. CacheInv' /\ SharedInv'
  BY <1>1
  DEF MapsInv, CacheInv, Pinned, Distinct, HandleIn, SharedInv, OneHandleEach
<1>3. CASE Flip
  BY <1>1, <1>2, <1>3
  DEF Flip, MapsInv, CaptureInv, ResultInv, HandleIn, MapsWith, capture
<1>4. ASSUME NEW f \in Fbs, Replace(f) PROVE MapsInv'
  <2>1. /\ fbs' = [fbs EXCEPT ![f] = fbs'[f]] /\ fbs'[f] \in Objects \cup {NoObject}
        /\ IF pc # "idle" /\ f = fb
              THEN shown' = (shown \cup {fbs'[f]}) \ {NoObject} ELSE shown' = shown
        /\ recycled' = (recycled \/ (/\ pc \notin {"idle", "query"} /\ f = fb
                                    /\ fbs'[f] \notin {handles[gem], NoObject}))
    BY <1>4 DEF Replace, TypeOK
  <2>2. shown \subseteq shown'
    BY <2>1, CacheAssumption DEF TypeOK
  <2>3. pc # "idle" => result = NoObject /\ fbs'[fb] \in shown' \cup {NoObject}
    BY <2>1, <2>2 DEF MapsInv, CaptureInv, TypeOK
  <2>4. ASSUME pc \in {"lookup", "fb2", "fb1"}, kernel = "shared"
        PROVE  fbs'[fb] \in {handles[gem], NoObject}
    <3>1. CASE f = fb
      BY <1>1, <2>1, <2>4, <3>1 DEF Identified
    <3>2. CASE f # fb
      BY <2>1, <2>4, <3>2 DEF MapsInv, CaptureInv, TypeOK
    <3>3. QED
      BY <3>1, <3>2
  <2>5. CaptureInv' /\ ResultInv'
    BY <1>1, <2>1, <2>2, <2>3, <2>4
    DEF MapsInv, CaptureInv, ResultInv, HandleIn, MapsWith, capture
  <2>6. QED
    BY <1>2, <2>5 DEF MapsInv
<1>5. QED
  BY <1>3, <1>4

\* Opening a handle for the object of the framebuffer leaves the rest alone.
LEMMA QueryHandleKeeps ==
  ASSUME TypeOK, MapsInv, QueryHandle
  PROVE  MapsInv'
<1> USE CacheAssumption
<1> DEFINE o == fbs[fb]
<1>1. /\ pc = "query" /\ pc' = "lookup" /\ o \in Objects
      /\ UNCHANGED <<screen, fb, lastKey, latches, cache, vaapi, shown, result>>
  BY DEF QueryHandle, TypeOK
<1>2. PICK h \in Handles : /\ Opens(handles, h, o) /\ gem' = h
                           /\ handles' = Opened(handles, h, o)
  BY DEF QueryHandle, Queried
<1>3. /\ handles'[h] = o
      /\ \A g \in Handles : handles[g] # NoObject => handles'[g] = handles[g]
      /\ kernel = "shared" /\ OneHandleEach(handles) => OneHandleEach(handles')
  BY <1>1, <1>2, OpensOne DEF TypeOK
<1>4. CacheInv'
  BY <1>1, <1>3, CachesStayPinned DEF MapsInv
<1>5. SharedInv'
  BY <1>1, <1>3 DEF MapsInv, SharedInv, OneHandleEach, screen
<1>6. CaptureInv' /\ ResultInv'
  BY <1>1, <1>2, <1>3 DEF MapsInv, CaptureInv, ResultInv, screen
<1>7. QED
  BY <1>4, <1>5, <1>6 DEF MapsInv

\* A lookup that hits yields an object the framebuffer had.
LEMMA HitKeeps ==
  ASSUME TypeOK, MapsInv, Hit
  PROVE  MapsInv'
<1>1. /\ pc = "lookup" /\ pc' = "idle"
      /\ UNCHANGED <<screen, handles, cache, vaapi, shown>>
  BY DEF Hit
<1>2. \E s \in {cache, vaapi} : \E i \in DOMAIN s :
        s[i].handle = gem /\ result' = s[i].object
  BY DEF Hit, Hits
<1>3. result' = handles[gem]
  BY <1>2 DEF MapsInv, CacheInv, Pinned
<1>4. CacheInv' /\ SharedInv'
  BY <1>1
  DEF MapsInv, CacheInv, Pinned, Distinct, HandleIn, SharedInv, OneHandleEach, screen
<1>5. CaptureInv' /\ ResultInv'
  BY <1>1, <1>3 DEF MapsInv, CaptureInv, ResultInv
<1>6. QED
  BY <1>4, <1>5 DEF MapsInv

\* A new map is kept under a handle that is in no cache, and an eviction closes a
\* handle that stays in none.
LEMMA MapAndKeepKeeps ==
  ASSUME TypeOK, MapsInv, MapAndKeep
  PROVE  MapsInv'
<1> USE CacheAssumption
<1> DEFINE o == fbs[fb]
<1>1. /\ pc \in {"fb2", "fb1"} /\ o # NoObject /\ o \in Objects
      /\ MapsWith(o) # "fails"
      /\ pc' = "idle" /\ result' \in {o, NoObject}
      /\ UNCHANGED <<screen, fb, gem, lastKey, vaapi, shown>>
  BY DEF MapAndKeep, TypeOK
<1>2. PICK h \in Handles, k \in Handles :
        /\ Opens(handles, h, o) /\ (k = h \/ OpensTwo(h, k, o))
        /\ handles' = ClosedByEviction(Opened(Opened(handles, h, o), k, o))
        /\ cache' = Append(Evicted(cache), [handle |-> k, object |-> o])
  BY DEF MapAndKeep, OpensTwo
<1> DEFINE e == [handle |-> k, object |-> o]
           tbl == Opened(Opened(handles, h, o), k, o)
<1>3. /\ tbl \in [Handles -> Objects \cup {NoObject}]
      /\ tbl[k] = o
      /\ \A g \in Handles : handles[g] # NoObject => tbl[g] = handles[g]
      /\ kernel = "shared" /\ OneHandleEach(handles) => OneHandleEach(tbl)
  BY <1>1, <1>2, OpensBoth
<1>4. ~HandleIn(k, cache) /\ ~HandleIn(k, vaapi)
  BY <1>1, <1>2, MissedHandles
<1>5. e \in Entry /\ e.handle = k /\ e.object = o
  BY <1>1 DEF Entry
<1>6. /\ Distinct(cache')
      /\ \A i \in DOMAIN cache' :
           \/ cache'[i] = e
           \/ \E j \in DOMAIN cache :
                cache'[i] = cache[j] /\ (Len(cache) >= CacheSize => j # 1)
  BY <1>2, <1>4, <1>5, KeptEntries DEF TypeOK, MapsInv, CacheInv
<1>7. handles' = tbl \/ (/\ Len(cache) >= CacheSize /\ 1 \in DOMAIN cache
                         /\ handles' = [tbl EXCEPT ![cache[1].handle] = NoObject])
  <2>1. Len(cache) >= CacheSize => 1 \in DOMAIN cache /\ Head(cache) = cache[1]
    BY DEF TypeOK
  <2>2. QED
    BY <1>2, <2>1 DEF ClosedByEviction
<1> HIDE DEF tbl, e, o
<1>8. \A g \in Handles :
        \/ handles'[g] = tbl[g]
        \/ /\ Len(cache) >= CacheSize /\ 1 \in DOMAIN cache
           /\ g = cache[1].handle /\ handles'[g] = NoObject
  BY <1>3, <1>7
<1>9. \A s \in {cache, vaapi} : \A i \in DOMAIN s :
        s[i].handle \in Handles /\ tbl[s[i].handle] = s[i].object
  <2> SUFFICES ASSUME NEW s \in {cache, vaapi}, NEW i \in DOMAIN s
               PROVE  s[i].handle \in Handles /\ tbl[s[i].handle] = s[i].object
    OBVIOUS
  <2>1. s[i].handle \in Handles /\ s[i].object \in Objects
    BY EntryFields DEF TypeOK
  <2>2. handles[s[i].handle] = s[i].object
    BY DEF MapsInv, CacheInv, Pinned
  <2>3. QED
    BY <1>3, <2>1, <2>2
<1>10. Pinned(cache)' /\ Pinned(vaapi)'
  <2>1. ASSUME NEW i \in DOMAIN cache'
        PROVE  handles'[cache'[i].handle] = cache'[i].object
    <3>1. CASE cache'[i] = e
      <4>1. ~(1 \in DOMAIN cache /\ k = cache[1].handle)
        BY <1>4 DEF HandleIn
      <4>2. QED
        BY <1>3, <1>5, <1>8, <3>1, <4>1
    <3>2. ASSUME NEW j \in DOMAIN cache,
                 cache'[i] = cache[j], Len(cache) >= CacheSize => j # 1
          PROVE  handles'[cache'[i].handle] = cache'[i].object
      <4>1. Len(cache) >= CacheSize /\ 1 \in DOMAIN cache
              => cache[j].handle # cache[1].handle
        BY <3>2 DEF MapsInv, CacheInv, Distinct
      <4>2. QED
        BY <1>8, <1>9, <3>2, <4>1
    <3>3. QED
      BY <1>6, <3>1, <3>2
  <2>2. ASSUME NEW i \in DOMAIN vaapi
        PROVE  handles'[vaapi[i].handle] = vaapi[i].object
    <3>1. 1 \in DOMAIN cache => vaapi[i].handle # cache[1].handle
      BY DEF MapsInv, CacheInv, HandleIn
    <3>2. QED
      BY <1>8, <1>9, <3>1
  <2>3. QED
    BY <1>1, <2>1, <2>2 DEF Pinned
<1>11. CacheInv'
  <2>1. ASSUME NEW i \in DOMAIN cache' PROVE ~HandleIn(cache'[i].handle, vaapi)
    BY <1>4, <1>5, <1>6 DEF MapsInv, CacheInv
  <2>2. QED
    BY <1>1, <1>6, <1>10, <2>1 DEF MapsInv, CacheInv, Distinct, HandleIn
<1>12. SharedInv'
  <2> SUFFICES ASSUME kernel = "shared", NEW f \in Handles, NEW g \in Handles,
                      handles'[f] = handles'[g], handles'[f] # NoObject
               PROVE  f = g
    BY <1>1 DEF SharedInv, OneHandleEach, screen
  <2>1. tbl[f] = tbl[g] /\ tbl[f] # NoObject
    BY <1>8
  <2>2. QED
    BY <1>3, <2>1 DEF MapsInv, SharedInv, OneHandleEach
<1>13. CaptureInv' /\ ResultInv'
  BY <1>1 DEF MapsInv, CaptureInv, ResultInv, screen, o
<1>14. QED
  BY <1>11, <1>12, <1>13 DEF MapsInv

\* An object that is imported is remembered under a handle that is in no cache.
LEMMA ImportsKeep ==
  ASSUME TypeOK, MapsInv, Imports, UNCHANGED <<kernel, cache>>
  PROVE  /\ CacheInv' /\ SharedInv'
         /\ \A g \in Handles : handles[g] # NoObject => handles'[g] = handles[g]
         /\ HandleIn(gem, vaapi') => handles[gem] = fbs[fb]
<1> USE CacheAssumption
<1> DEFINE o == fbs[fb]
<1>1. pc = "fb2" /\ o # NoObject /\ o \in Objects
  BY DEF Imports, TypeOK
<1>2. PICK h \in Handles, k \in Handles :
        /\ Opens(handles, h, o) /\ (k = h \/ OpensTwo(h, k, o))
        /\ handles' = Opened(Opened(handles, h, o), k, o)
        /\ vaapi' = Append(Evicted(vaapi), [handle |-> h, object |-> o])
  BY DEF Imports
<1> DEFINE e == [handle |-> h, object |-> o]
<1>3. /\ handles'[h] = o
      /\ \A g \in Handles : handles[g] # NoObject => handles'[g] = handles[g]
      /\ kernel = "shared" /\ OneHandleEach(handles) => OneHandleEach(handles')
  BY <1>1, <1>2, OpensBoth
<1>4. ~HandleIn(h, cache) /\ ~HandleIn(h, vaapi)
  BY <1>1, <1>2, MissedHandle
<1>5. e \in Entry /\ e.handle = h /\ e.object = o
  BY <1>1 DEF Entry
<1>6. /\ Distinct(vaapi')
      /\ \A i \in DOMAIN vaapi' :
           vaapi'[i] = e \/ \E j \in DOMAIN vaapi : vaapi'[i] = vaapi[j]
  BY <1>2, <1>4, <1>5, KeptEntries DEF TypeOK, MapsInv, CacheInv
<1>7. handles[h] \in {NoObject, o}
  BY <1>2 DEF Opens
<1> HIDE DEF e, o
<1>8. Pinned(cache)' /\ Pinned(vaapi)'
  <2>1. ASSUME NEW t \in {cache, vaapi}, NEW i \in DOMAIN t
        PROVE  handles'[t[i].handle] = t[i].object
    <3>1. t[i].handle \in Handles /\ t[i].object \in Objects
      BY EntryFields DEF TypeOK
    <3>2. handles[t[i].handle] = t[i].object
      BY DEF MapsInv, CacheInv, Pinned
    <3>3. QED
      BY <1>3, <3>1, <3>2
  <2>2. ASSUME NEW i \in DOMAIN vaapi'
        PROVE  handles'[vaapi'[i].handle] = vaapi'[i].object
    BY <1>3, <1>5, <1>6, <2>1
  <2>3. QED
    BY <2>1, <2>2 DEF Pinned
<1>9. CacheInv'
  <2>1. ASSUME NEW i \in DOMAIN cache PROVE ~HandleIn(cache[i].handle, vaapi')
    BY <1>4, <1>5, <1>6 DEF MapsInv, CacheInv, HandleIn
  <2>2. QED
    BY <1>6, <1>8, <2>1 DEF MapsInv, CacheInv, Distinct, HandleIn
<1>10. SharedInv'
  BY <1>3 DEF MapsInv, SharedInv, OneHandleEach
<1>11. HandleIn(gem, vaapi') => handles[gem] = o
  <2> SUFFICES ASSUME HandleIn(gem, vaapi') PROVE handles[gem] = o
    OBVIOUS
  <2>1. ~HandleIn(gem, vaapi) /\ handles[gem] \in Objects
    BY <1>1 DEF MapsInv, CaptureInv, TypeOK
  <2>2. gem = h
    BY <1>5, <1>6, <2>1 DEF HandleIn
  <2>3. QED
    BY <1>7, <2>1, <2>2
<1>12. QED
  BY <1>3, <1>9, <1>10, <1>11 DEF o

\* Its pixels are the result, or map_fb1 is tried, which cannot map it either.
LEMMA ImportKeeps ==
  ASSUME TypeOK, MapsInv, ImportVaapi \/ ImportFails
  PROVE  MapsInv'
<1>1. /\ Imports /\ UNCHANGED <<screen, fb, gem, usePrime, cache>>
      /\ \/ pc' = "idle" /\ result' = fbs[fb] /\ shown' = shown
         \/ pc' = "idle" /\ result' = result
         \/ pc' = "fb1" /\ result' = result /\ shown' = shown
  BY DEF ImportVaapi, ImportFails, Fails, AfterError, latches
<1>2. /\ CacheInv' /\ SharedInv'
      /\ \A g \in Handles : handles[g] # NoObject => handles'[g] = handles[g]
      /\ HandleIn(gem, vaapi') => handles[gem] = fbs[fb]
  BY <1>1, ImportsKeep DEF screen
<1>3. /\ pc = "fb2" /\ fbs[fb] # NoObject /\ MapsWith(fbs[fb]) = "fails"
  BY <1>1 DEF Imports
<1>4. /\ result = NoObject /\ fbs[fb] \in shown
      /\ handles[gem] \in shown /\ ~HandleIn(gem, cache)
      /\ kernel = "shared" => fbs[fb] \in {handles[gem], NoObject}
  BY <1>3 DEF MapsInv, CaptureInv
<1>5. handles'[gem] = handles[gem]
  BY <1>2, <1>4, CacheAssumption DEF TypeOK
<1>6. CaptureInv' /\ ResultInv'
  BY <1>1, <1>2, <1>3, <1>4, <1>5
  DEF CaptureInv, ResultInv, HandleIn, MapsWith, screen
<1>7. QED
  BY <1>2, <1>6 DEF MapsInv

\* A capture that fails after it opened handles leaves the caches alone.
LEMMA MapFailsKeeps ==
  ASSUME TypeOK, MapsInv, MapFails
  PROVE  MapsInv'
<1> USE CacheAssumption
<1>1. /\ pc \in {"fb2", "fb1"}
      /\ pc' = "idle" \/ (pc = "fb2" /\ pc' = "fb1" /\ shown' = shown)
      /\ UNCHANGED <<screen, fb, gem, usePrime, cache, vaapi, result>>
  BY DEF MapFails, Fails, AfterError, latches
<1>2. /\ \A g \in Handles : handles[g] # NoObject => handles'[g] = handles[g]
      /\ kernel = "shared" /\ OneHandleEach(handles) => OneHandleEach(handles')
  <2>1. CASE UNCHANGED handles
    BY <2>1 DEF OneHandleEach
  <2>2. CASE handles' # handles
    <3>1. PICK h \in Handles, k \in Handles :
            /\ fbs[fb] # NoObject /\ Opens(handles, h, fbs[fb])
            /\ k = h \/ OpensTwo(h, k, fbs[fb])
            /\ handles' = Opened(Opened(handles, h, fbs[fb]), k, fbs[fb])
      BY <2>2 DEF MapFails
    <3>2. fbs[fb] \in Objects
      BY <3>1 DEF TypeOK
    <3>3. QED
      BY <3>1, <3>2, OpensBoth
  <2>3. QED
    BY <2>1, <2>2
<1>3. CacheInv'
  BY <1>1, <1>2, CachesStayPinned DEF MapsInv
<1>4. SharedInv'
  BY <1>1, <1>2 DEF MapsInv, SharedInv, OneHandleEach, screen
<1>5. handles'[gem] = handles[gem]
  BY <1>1, <1>2 DEF MapsInv, CaptureInv, TypeOK
<1>6. CaptureInv' /\ ResultInv'
  BY <1>1, <1>5
  DEF MapsInv, CaptureInv, ResultInv, HandleIn, MapsWith, screen
<1>7. QED
  BY <1>3, <1>4, <1>6 DEF MapsInv

\* The other steps open and keep nothing.
LEMMA OtherStepsKeep ==
  ASSUME TypeOK, MapsInv,
         Begin \/ QueryFails \/ HitFails \/ Miss \/ UNCHANGED vars
  PROVE  MapsInv'
<1>1. UNCHANGED <<screen, handles, gem, usePrime, cache, vaapi>>
  BY DEF Begin, QueryFails, HitFails, Miss, Fails, vars, capture, latches
<1>2. CacheInv' /\ SharedInv'
  BY <1>1
  DEF MapsInv, CacheInv, Pinned, Distinct, HandleIn, SharedInv, OneHandleEach, screen
<1>3. CASE Begin
  <2>1. pc' = "query" /\ shown' = {fbs[fb']} \ {NoObject} /\ result' = NoObject
    BY <1>3 DEF Begin
  <2>2. QED
    BY <1>1, <1>2, <2>1 DEF MapsInv, CaptureInv, ResultInv, screen
<1>4. CASE QueryFails \/ HitFails
  BY <1>1, <1>2, <1>4
  DEF QueryFails, HitFails, Fails, MapsInv, CaptureInv, ResultInv
<1>5. CASE Miss
  <2>1. /\ pc = "lookup" /\ pc' \in {"fb2", "fb1"} /\ UNCHANGED <<fb, shown, result>>
        /\ ~HandleIn(gem, cache) /\ ~HandleIn(gem, vaapi)
    BY <1>5 DEF Miss, Hits, HandleIn
  <2>2. QED
    BY <1>1, <1>2, <2>1 DEF MapsInv, CaptureInv, ResultInv, HandleIn, screen
<1>6. CASE UNCHANGED vars
  BY <1>1, <1>2, <1>6
  DEF vars, capture, MapsInv, CaptureInv, ResultInv, HandleIn, MapsWith, screen
<1>7. QED
  BY <1>3, <1>4, <1>5, <1>6

\* Every step keeps the invariant, which a recycled framebuffer id voids for good.
LEMMA BufferInvNext == BufferInv /\ [Next]_vars => BufferInv'
<1> SUFFICES ASSUME BufferInv, [Next]_vars PROVE BufferInv'
  OBVIOUS
<1>1. TypeOK /\ TypeOK'
  BY TypesNext DEF BufferInv
<1>2. Identified' => Identified
  BY <1>1
  DEF Identified, TypeOK, Next, Flip, Replace, Capture, Begin, QueryHandle,
      QueryFails, Hit, HitFails, Miss, MapAndKeep, ImportVaapi, ImportFails,
      MapFails, Fails, vars, screen
<1>3. Identified' => MapsInv'
  <2> SUFFICES ASSUME Identified' PROVE MapsInv'
    OBVIOUS
  <2>1. MapsInv
    BY <1>2 DEF BufferInv
  <2>2. QED
    BY <1>1, <2>1, ScreenKeeps, QueryHandleKeeps, HitKeeps, MapAndKeepKeeps,
       ImportKeeps, MapFailsKeeps, OtherStepsKeep
    DEF Next, Capture
<1>4. QED
  BY <1>1, <1>3 DEF BufferInv

-----------------------------------------------------------------------------
(* The theorems. *)

\* Every variable keeps its type and both caches keep their bound (Capturer, whose
\* caches evict before they grow).
THEOREM TypeCorrect == Spec => []TypeOK
<1>1. BufferInv => TypeOK
  BY DEF BufferInv
<1>2. QED
  BY BufferInvInit, BufferInvNext, <1>1, PTL DEF Spec

\* The handle of a map in the cache stays open on the object that is mapped:
\* get_gem_handle never closes one, and evict_entry only that of a map that goes.
\* On a kernel that opens a new handle for every query that holds always; on one
\* that shares them, until a framebuffer id is recycled between the query of
\* get_gem_handle and the one of map_buffer.
THEOREM CachedHandlesStayOpen == Spec => []HandlesPinned
<1>1. BufferInv => HandlesPinned
  BY DEF BufferInv, MapsInv, CacheInv, Pinned, HandlesPinned
<1>2. QED
  BY BufferInvInit, BufferInvNext, <1>1, PTL DEF Spec

\* A capture copies the pixels of an object its framebuffer had since the
\* capture asked for it, whatever was flipped, replaced, evicted or renumbered
\* (Capturer::capture), under the same condition.
THEOREM CapturesAreNotStale == Spec => []NoStaleMap
<1>1. BufferInv => NoStaleMap
  BY DEF BufferInv, MapsInv, ResultInv, NoStaleMap
<1>2. QED
  BY BufferInvInit, BufferInvNext, <1>1, PTL DEF Spec
=============================================================================
