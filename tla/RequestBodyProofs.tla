------------------------- MODULE RequestBodyProofs -------------------------
(***************************************************************************)
(* Proofs about RequestBody, for every application, request and limit: a    *)
(* body is preserved, limited, and parsed as what it is declared to be.    *)
(* The parts of the invariant are stated of any view `v` of any requests    *)
(* `rs`, so that there is one lemma for each operator that makes a view.    *)
(***************************************************************************)
EXTENDS RequestBody, TLAPS

SameHeaders(r, s) ==
    /\ r.method = s.method /\ r.path = s.path /\ r.type = s.type
    /\ r.declared = s.declared /\ r.chunked = s.chunked

(* All that reading a body leaves as it is.                                 *)
Alike(r, s) ==
    /\ SameHeaders(r, s)
    /\ r.hasBody = s.hasBody /\ r.size = s.size /\ r.content = s.content

(* Requests are created and read, never taken back.                         *)
Grows(rs, after) ==
    /\ after \in Seq(Object) /\ Len(rs) <= Len(after)
    /\ \A i \in 1..Len(rs) : Alike(after[i], rs[i])

ViewOK(v, rs) ==
    /\ v \in View
    /\ v.raw <= Len(rs) /\ v.pending <= Len(rs)
    /\ v.raw = None <=> v.pending # None
    /\ v.current <= Len(rs)
    /\ v.synced \subseteq 1..Len(rs)

(* The request that ctx.req.raw is, or is to be a copy of.                  *)
Source(v) == IF v.pending # None THEN v.pending ELSE v.raw

(* The headers of the server's request, and what has no body.               *)
NoBodies(rs) == \A i \in 1..Len(rs) : NoBody(rs[i].method) => ~rs[i].hasBody
Served(rs) ==
    /\ transport # "direct" => Frames(rs[1])
    /\ transport = "node" => rs[1].hasBody \/ NoBody(rs[1].method)

(* The source has the body that was installed last, and nobody read it.     *)
Intact(v, rs, last) ==
    /\ rs[Source(v)].method = rs[last].method
    /\ ~NoBody(rs[last].method) =>
           /\ rs[Source(v)].content = rs[last].content
           /\ rs[Source(v)].size = rs[last].size
           /\ v.pending = None => ~rs[Source(v)].used

SkipOf(path) == IF path \in SkippedPaths THEN "yes" ELSE "no"

(* The caches describe the request the state knows as the current one.      *)
CachesOK(v, rs) ==
    /\ v.method = rs[Current(v)].method /\ v.path = rs[Current(v)].path
    /\ v.type \in {"unset", rs[Current(v)].type}
    /\ v.skip \in {"unset", SkipOf(rs[Current(v)].path)}

IsSynced(v) == v.pending # None \/ v.raw \in v.synced

(* That one is the source, or has its headers, once the state has seen it.  *)
CurrentOK(v, rs) ==
    /\ 1 \in v.synced
    /\ IsSynced(v) => SameHeaders(rs[Source(v)], rs[Current(v)])

-----------------------------------------------------------------------------
(* The invariant.                                                           *)

(* A layer that counts or reads has ctx.req.raw before it, and a parser     *)
(* knows what it reads.                                                     *)
AwaitInv ==
    /\ step \in {"count", "read"} => view.pending = None
    /\ step = "read" => contentType \in BodyTypes

IntactInv == verdict = "none" /\ step # "done" => Intact(view, requests, installed)

BodyInv == TypeOK /\ Served(requests) /\ NoBodies(requests) /\ AwaitInv /\ IntactInv

(* What the layers found out before they await something.                   *)
CountInv ==
    step = "count" =>
        /\ layer.kind \in {"limit", "parser"}
        /\ layer.kind = "limit" => view.raw \in view.synced
ReadInv ==
    step = "read" =>
        /\ view.raw \in view.synced
        /\ contentType = requests[view.raw].type
        /\ MayBeParsed(requests[view.raw])

HeaderInv == CachesOK(view, requests) /\ CurrentOK(view, requests) /\ CountInv /\ ReadInv

-----------------------------------------------------------------------------
(* Requests.                                                                *)

LEMMA CopyOK ==
    ASSUME NEW r \in Object
    PROVE  /\ Copy(r) \in Object
           /\ SameHeaders(Copy(r), r) /\ Copy(r).content = r.content /\ ~Copy(r).used
           /\ NoBody(r.method) => ~Copy(r).hasBody
           /\ ~NoBody(r.method) => Copy(r).size = r.size /\ Copy(r).hasBody
  BY DEF Copy, Object, SameHeaders

LEMMA CreatedOK ==
    ASSUME NEW r \in Request, NEW id \in Nat
    PROVE  /\ Created(r, id) \in Object
           /\ SameHeaders(Created(r, id), r) /\ Created(r, id).content = id
           /\ Created(r, id).hasBody = r.hasBody /\ Created(r, id).size = r.size
           /\ ~Created(r, id).used
  BY DEF Created, Object, Request, SameHeaders

LEMMA AppendOK ==
    ASSUME NEW rs \in Seq(Object), NEW r \in Object
    PROVE  /\ Grows(rs, Append(rs, r)) /\ Len(Append(rs, r)) = Len(rs) + 1
           /\ \A i \in 1..Len(rs) : Append(rs, r)[i] = rs[i]
           /\ Append(rs, r)[Len(rs) + 1] = r
  BY DEF Grows, Alike, SameHeaders

LEMMA UsedOK ==
    ASSUME NEW rs \in Seq(Object), NEW id \in 1..Len(rs)
    PROVE  /\ Grows(rs, Used(rs, id)) /\ Len(Used(rs, id)) = Len(rs)
           /\ \A i \in 1..Len(rs) : i # id => Used(rs, id)[i] = rs[i]
<1> DEFINE r == [rs[id] EXCEPT !.used = TRUE]
<1>1. rs[id] \in Object
  OBVIOUS
<1>2. r \in Object /\ Alike(r, rs[id])
  BY <1>1 DEF Object, Alike, SameHeaders
<1>3. Used(rs, id) = [rs EXCEPT ![id] = r]
  BY DEF Used
<1> HIDE DEF r
<1>4. Len(Used(rs, id)) = Len(rs) /\ Used(rs, id) \in Seq(Object)
  BY <1>2, <1>3
<1>5. \A i \in 1..Len(rs) : Used(rs, id)[i] = IF i = id THEN r ELSE rs[i]
  BY <1>3
<1>6. \A i \in 1..Len(rs) : Alike(Used(rs, id)[i], rs[i])
  BY <1>2, <1>5 DEF Alike, SameHeaders
<1> QED
  BY <1>4, <1>5, <1>6 DEF Grows

LEMMA GrowsTransitive ==
    ASSUME NEW rs, NEW then, NEW after, Len(rs) \in Nat, Len(then) \in Nat, Len(after) \in Nat,
           Grows(rs, then), Grows(then, after)
    PROVE  Grows(rs, after)
  BY DEF Grows, Alike, SameHeaders

(* More requests leave a view what it is.                                   *)
LEMMA GrowsOK ==
    ASSUME NEW rs \in Seq(Object), NEW after, Grows(rs, after), NEW v, ViewOK(v, rs), rs # <<>>
    PROVE  /\ ViewOK(v, after)
           /\ Served(rs) => Served(after)
           /\ CachesOK(v, rs) => CachesOK(v, after)
           /\ CurrentOK(v, rs) => CurrentOK(v, after)
<1>1. Len(after) \in Nat /\ Len(rs) \in Nat /\ Len(rs) <= Len(after) /\ 1 \in 1..Len(rs)
  BY DEF Grows
<1>2. v.raw \in Nat /\ v.pending \in Nat /\ v.current \in Nat
  BY DEF ViewOK, View
<1>3. ViewOK(v, after)
  BY <1>1, <1>2 DEF ViewOK
<1>4. Source(v) \in 1..Len(rs) /\ Current(v) \in 1..Len(rs)
  BY <1>1, <1>2 DEF ViewOK, Source, Current, None
<1>5. Alike(after[1], rs[1]) /\ Alike(after[Source(v)], rs[Source(v)])
        /\ Alike(after[Current(v)], rs[Current(v)])
  BY <1>1, <1>4 DEF Grows
<1>6. Served(rs) => Served(after)
  BY <1>5 DEF Served, Frames, Alike, SameHeaders
<1>7. CachesOK(v, rs) => CachesOK(v, after)
  BY <1>5 DEF CachesOK, Alike, SameHeaders
<1>8. CurrentOK(v, rs) => CurrentOK(v, after)
  BY <1>5 DEF CurrentOK, Alike, SameHeaders
<1> QED
  BY <1>3, <1>6, <1>7, <1>8

-----------------------------------------------------------------------------
(* Views.                                                                   *)

LEMMA SourceOK ==
    ASSUME NEW rs \in Seq(Object), rs # <<>>, NEW v, ViewOK(v, rs)
    PROVE  /\ Source(v) \in 1..Len(rs) /\ Current(v) \in 1..Len(rs)
           /\ rs[Source(v)] \in Object /\ rs[Current(v)] \in Object
           /\ v.pending # None => v.pending \in 1..Len(rs) /\ v.raw = None
           /\ v.pending = None => v.raw \in 1..Len(rs)
<1>1. Len(rs) \in Nat /\ Len(rs) > 0
  OBVIOUS
<1>2. v.raw \in Nat /\ v.pending \in Nat /\ v.current \in Nat
  BY DEF ViewOK, View
<1>3. Source(v) \in 1..Len(rs) /\ Current(v) \in 1..Len(rs)
  BY <1>1, <1>2 DEF ViewOK, Source, Current, None
<1>4. /\ v.pending # None => v.pending \in 1..Len(rs) /\ v.raw = None
      /\ v.pending = None => v.raw \in 1..Len(rs)
  BY <1>1, <1>2 DEF ViewOK, None
<1> QED
  BY <1>3, <1>4

LEMMA AdoptedOK ==
    ASSUME NEW rs \in Seq(Object), rs # <<>>, NEW v, ViewOK(v, rs), v.pending = None
    PROVE  LET w == Adopted(v, rs) IN
           /\ ViewOK(w, rs) /\ CachesOK(w, rs)
           /\ w.raw = v.raw /\ w.pending = None /\ w.synced = v.synced
           /\ Current(w) = v.raw
<1> DEFINE w == Adopted(v, rs)
<1>1. v.raw \in 1..Len(rs) /\ rs[v.raw] \in Object
  BY SourceOK
<1>2. rs[v.raw].method \in Methods /\ rs[v.raw].path \in Paths
  BY <1>1 DEF Object
<1>3. /\ w.raw = v.raw /\ w.pending = v.pending /\ w.synced = v.synced
      /\ w.current = v.raw /\ w.type = "unset" /\ w.skip = "unset"
      /\ w.method = rs[v.raw].method /\ w.path = rs[v.raw].path
  BY DEF Adopted, ViewOK, View
<1>4. w \in View
  BY <1>1, <1>2 DEF Adopted, ViewOK, View
<1> HIDE DEF w
<1>5. ViewOK(w, rs)
  BY <1>1, <1>3, <1>4 DEF ViewOK
<1>6. Current(w) = v.raw
  BY <1>1, <1>3 DEF Current, None
<1>7. CachesOK(w, rs)
  BY <1>3, <1>6 DEF CachesOK
<1> QED
  BY <1>3, <1>5, <1>6, <1>7 DEF w

LEMMA SyncedOK ==
    ASSUME NEW rs \in Seq(Object), rs # <<>>, NEW v, ViewOK(v, rs)
    PROVE  LET w == Synced(v, rs) IN
           /\ ViewOK(w, rs)
           /\ w.raw = v.raw /\ w.pending = v.pending /\ v.synced \subseteq w.synced
           /\ IsSynced(w)
           /\ CachesOK(v, rs) => CachesOK(w, rs)
           /\ CachesOK(v, rs) /\ CurrentOK(v, rs) => CurrentOK(w, rs)
           /\ 1 \in v.synced /\ v.pending = None /\ v.raw \notin v.synced => CachesOK(w, rs)
           /\ 1 \in v.synced /\ v.pending = None /\ v.raw \notin v.synced => CurrentOK(w, rs)
<1> DEFINE w == Synced(v, rs)
<1>1. CASE v.pending # None \/ v.raw \in v.synced
  <2>1. w = v
    BY <1>1 DEF Synced
  <2> QED
    BY <1>1, <2>1 DEF IsSynced
<1>2. CASE v.pending = None /\ v.raw \notin v.synced
  <2> DEFINE u == IF v.raw = 1 THEN v ELSE Adopted(v, rs)
  <2>1. v.raw \in 1..Len(rs)
    BY <1>2, SourceOK
  <2>2. /\ ViewOK(u, rs) /\ u.raw = v.raw /\ u.pending = None /\ u.synced = v.synced
        /\ v.raw # 1 => CachesOK(u, rs) /\ Current(u) = v.raw
        /\ v.raw = 1 => u = v
    BY <1>2, AdoptedOK
  <2> HIDE DEF u
  <2>3. w = [u EXCEPT !.synced = @ \cup {v.raw}]
    BY <1>2 DEF Synced, u
  <2>4. u \in View
    BY <2>2 DEF ViewOK
  <2>5. /\ w \in View /\ w.synced = v.synced \cup {v.raw}
        /\ w.raw = u.raw /\ w.pending = u.pending /\ w.current = u.current
        /\ w.method = u.method /\ w.path = u.path /\ w.type = u.type /\ w.skip = u.skip
    BY <2>1, <2>2, <2>3, <2>4 DEF View
  <2> HIDE DEF w
  <2>6. ViewOK(w, rs)
    BY <2>1, <2>2, <2>5 DEF ViewOK
  <2>7. Current(w) = Current(u) /\ Source(w) = v.raw
    BY <2>2, <2>5 DEF Current, Source
  <2>8. CachesOK(u, rs) => CachesOK(w, rs)
    BY <2>5, <2>7 DEF CachesOK
  <2>9. v.raw # 1 => CurrentOK(w, rs) \/ 1 \notin v.synced
    BY <2>2, <2>5, <2>7 DEF CurrentOK, SameHeaders
  <2>10. 1 \in v.synced => v.raw # 1
    BY <1>2
  <2>11. CurrentOK(v, rs) => 1 \in v.synced
    BY DEF CurrentOK
  <2>12. IsSynced(w) /\ v.synced \subseteq w.synced
    BY <2>2, <2>5 DEF IsSynced
  <2>13. w.raw = v.raw /\ w.pending = v.pending
    BY <1>2, <2>2, <2>5
  <2> QED
    BY <2>2, <2>6, <2>8, <2>9, <2>10, <2>11, <2>12, <2>13 DEF w
<1> QED
  BY <1>1, <1>2

(* The property without its accessor.                                       *)
Plain(v, id) == [v EXCEPT !.raw = id, !.pending = None]

LEMMA PlainOK ==
    ASSUME NEW rs \in Seq(Object), rs # <<>>, NEW v, ViewOK(v, rs), NEW id \in 1..Len(rs)
    PROVE  LET w == Plain(v, id) IN
           /\ ViewOK(w, rs)
           /\ w.raw = id /\ w.pending = None /\ w.synced = v.synced
           /\ Current(w) = Current(v)
           /\ CachesOK(v, rs) => CachesOK(w, rs)
<1> DEFINE w == Plain(v, id)
<1>1. v \in View /\ id \in Nat /\ id # None /\ id <= Len(rs)
  BY DEF ViewOK, None
<1>2. /\ w \in View /\ w.raw = id /\ w.pending = None /\ w.synced = v.synced
      /\ w.current = v.current /\ w.method = v.method /\ w.path = v.path
      /\ w.type = v.type /\ w.skip = v.skip
  BY <1>1 DEF Plain, View, None
<1> HIDE DEF w
<1>3. ViewOK(w, rs)
  BY <1>1, <1>2 DEF ViewOK, None
<1>4. Current(w) = Current(v)
  BY <1>2 DEF Current
<1>5. CachesOK(v, rs) => CachesOK(w, rs)
  BY <1>2, <1>4 DEF CachesOK
<1> QED
  BY <1>2, <1>3, <1>4, <1>5 DEF w

(* A request that is put back is the current one, or is new to the state.   *)
LEMMA AssignedOK ==
    ASSUME NEW rs \in Seq(Object), rs # <<>>, NEW v, ViewOK(v, rs), NEW id \in 1..Len(rs)
    PROVE  LET w == Assigned(v, rs, id) IN
           /\ ViewOK(w, rs)
           /\ w.raw = id /\ w.pending = None /\ v.synced \subseteq w.synced
           /\ CachesOK(v, rs) => CachesOK(w, rs)
           /\ CachesOK(v, rs) /\ 1 \in v.synced /\ (id \in v.synced => id = Current(v))
                => CurrentOK(w, rs)
<1> DEFINE p == Plain(v, id)
           w == Assigned(v, rs, id)
<1>1. /\ ViewOK(p, rs) /\ p.raw = id /\ p.pending = None /\ p.synced = v.synced
      /\ Current(p) = Current(v)
      /\ CachesOK(v, rs) => CachesOK(p, rs)
  BY PlainOK
<1>2. w = IF v.pending = None THEN p ELSE Synced(p, rs)
  BY DEF Assigned, Plain
<1>3. 1 \in v.synced /\ (id \in v.synced => id = Current(v)) => CurrentOK(p, rs)
  BY <1>1 DEF CurrentOK, IsSynced, Source, SameHeaders
<1> HIDE DEF p
<1>4. LET s == Synced(p, rs) IN
      /\ ViewOK(s, rs)
      /\ s.raw = p.raw /\ s.pending = p.pending /\ p.synced \subseteq s.synced
      /\ CachesOK(p, rs) => CachesOK(s, rs)
      /\ CachesOK(p, rs) /\ CurrentOK(p, rs) => CurrentOK(s, rs)
  BY <1>1, SyncedOK
<1> HIDE DEF w
<1>5. CASE v.pending = None
  BY <1>1, <1>2, <1>3, <1>5 DEF w
<1>6. CASE v.pending # None
  BY <1>1, <1>2, <1>3, <1>4, <1>6 DEF w
<1> QED
  BY <1>5, <1>6

(* Reading ctx.req.raw: what was pending is there, and is not read.         *)
LEMMA ReadRawOK ==
    ASSUME NEW rs \in Seq(Object), rs # <<>>, NEW v, ViewOK(v, rs)
    PROVE  LET after == WithCopy(v, rs)
               w == Materialized(v, after)
           IN
           /\ Grows(rs, after) /\ after # <<>> /\ ViewOK(w, after)
           /\ w.pending = None /\ w.raw \in 1..Len(after)
           /\ v.synced \subseteq w.synced
           /\ v.pending = None => after = rs /\ w = v
           /\ NoBodies(rs) => NoBodies(after)
           /\ IsSynced(v) => w.raw \in w.synced
           /\ CachesOK(v, rs) => CachesOK(w, after)
           /\ CachesOK(v, rs) /\ CurrentOK(v, rs) => CurrentOK(w, after)
           /\ SameHeaders(after[w.raw], rs[Source(v)])
           /\ \A last \in 1..Len(rs) : Intact(v, rs, last) => Intact(w, after, last)
<1> DEFINE after == WithCopy(v, rs)
           w == Materialized(v, after)
<1>1. CASE v.pending = None
  <2>1. after = rs /\ w = v
    BY <1>1 DEF WithCopy, Materialized
  <2>2. Grows(rs, after)
    BY <2>1 DEF Grows, Alike, SameHeaders
  <2>3. v.raw \in 1..Len(rs) /\ Source(v) = v.raw
    BY <1>1, SourceOK DEF Source
  <2>4. SameHeaders(after[w.raw], rs[Source(v)])
    BY <2>1, <2>3 DEF SameHeaders
  <2>5. IsSynced(v) => w.raw \in w.synced
    BY <1>1, <2>1 DEF IsSynced
  <2> HIDE DEF after, w
  <2> QED
    BY <1>1, <2>1, <2>2, <2>3, <2>4, <2>5 DEF after, w
<1>2. CASE v.pending # None
  <2> DEFINE copy == Copy(rs[v.pending])
             n == Len(rs) + 1
             p == Plain(v, n)
  <2>1. v.pending \in 1..Len(rs) /\ rs[v.pending] \in Object /\ Source(v) = v.pending
    BY <1>2, SourceOK DEF Source
  <2>2. /\ copy \in Object /\ SameHeaders(copy, rs[v.pending])
        /\ copy.content = rs[v.pending].content /\ ~copy.used
        /\ NoBody(rs[v.pending].method) => ~copy.hasBody
        /\ ~NoBody(rs[v.pending].method) => copy.size = rs[v.pending].size
    BY <2>1, CopyOK
  <2>3. after = Append(rs, copy)
    BY <1>2 DEF WithCopy
  <2> HIDE DEF copy
  <2>4. /\ Grows(rs, after) /\ Len(after) = n
        /\ \A i \in 1..Len(rs) : after[i] = rs[i]
        /\ after[n] = copy
    BY <2>2, <2>3, AppendOK
  <2>5. Len(rs) \in Nat /\ n \in 1..Len(after) /\ after \in Seq(Object)
    BY <2>4 DEF Grows
  <2>6. after # <<>>
    BY <2>5
  <2>7. w = Synced(p, after)
    BY <1>2, <2>4 DEF Materialized, Plain
  <2> HIDE DEF after
  <2>8. /\ ViewOK(v, after)
        /\ CachesOK(v, rs) => CachesOK(v, after)
        /\ CurrentOK(v, rs) => CurrentOK(v, after)
    BY <2>4, GrowsOK
  <2> HIDE DEF n
  <2>9. /\ ViewOK(p, after) /\ p.raw = n /\ p.pending = None /\ p.synced = v.synced
        /\ Current(p) = Current(v)
        /\ CachesOK(v, after) => CachesOK(p, after)
    BY <2>5, <2>6, <2>8, PlainOK
  <2>10. n \notin v.synced
    BY <2>5 DEF ViewOK, n
  <2> HIDE DEF p
  <2>11. /\ ViewOK(w, after) /\ w.raw = n /\ w.pending = None /\ v.synced \subseteq w.synced
         /\ IsSynced(w)
         /\ CachesOK(p, after) => CachesOK(w, after)
         /\ 1 \in v.synced => CurrentOK(w, after)
    BY <2>5, <2>6, <2>7, <2>9, <2>10, SyncedOK
  <2> HIDE DEF w
  <2>12. CachesOK(v, rs) => CachesOK(w, after)
    BY <2>8, <2>9, <2>11
  <2>13. CurrentOK(v, rs) => CurrentOK(w, after)
    BY <2>11 DEF CurrentOK
  <2>14. w.raw \in w.synced
    BY <2>11 DEF IsSynced
  <2>15. SameHeaders(after[w.raw], rs[Source(v)])
    BY <2>1, <2>2, <2>4, <2>11
  <2>16. NoBodies(rs) => NoBodies(after)
    <3> SUFFICES ASSUME NoBodies(rs), NEW i \in 1..Len(after), NoBody(after[i].method)
                 PROVE  ~after[i].hasBody
      BY DEF NoBodies
    <3>1. CASE i = n
      BY <2>2, <2>4, <3>1 DEF SameHeaders
    <3>2. CASE i # n
      <4>1. i \in 1..Len(rs)
        BY <2>4, <2>5, <3>2 DEF n
      <4> QED
        BY <2>4, <4>1 DEF NoBodies
    <3> QED
      BY <3>1, <3>2
  <2>17. ASSUME NEW last \in 1..Len(rs), Intact(v, rs, last)
         PROVE  Intact(w, after, last)
    <3>1. Source(w) = n /\ after[n] = copy /\ after[last] = rs[last]
      BY <2>4, <2>11 DEF Source
    <3>2. copy.method = rs[v.pending].method
      BY <2>2 DEF SameHeaders
    <3> QED
      BY <2>1, <2>2, <2>17, <3>1, <3>2 DEF Intact
  <2> QED
    BY <1>2, <2>4, <2>5, <2>6, <2>11, <2>12, <2>13, <2>14, <2>15, <2>16, <2>17 DEF after, w
<1> QED
  BY <1>1, <1>2

(* The caches that a parser fills.                                          *)
LEMMA WithTypeOK ==
    ASSUME NEW rs \in Seq(Object), rs # <<>>, NEW v, ViewOK(v, rs)
    PROVE  LET w == WithType(v, rs) IN
           /\ ViewOK(w, rs) /\ w.type \in Types
           /\ w.raw = v.raw /\ w.pending = v.pending /\ w.synced = v.synced
           /\ Current(w) = Current(v) /\ w.method = v.method
           /\ CachesOK(v, rs) => CachesOK(w, rs) /\ w.type = rs[Current(v)].type
<1> DEFINE w == WithType(v, rs)
<1>1. Current(v) \in 1..Len(rs) /\ rs[Current(v)] \in Object
  BY SourceOK
<1>2. rs[Current(v)].type \in Types
  BY <1>1 DEF Object
<1>3. v \in View
  BY DEF ViewOK
<1>4. /\ w \in View /\ w.raw = v.raw /\ w.pending = v.pending /\ w.synced = v.synced
      /\ w.current = v.current /\ w.method = v.method /\ w.path = v.path /\ w.skip = v.skip
      /\ w.type = IF v.type # "unset" THEN v.type ELSE rs[Current(v)].type
  BY <1>2, <1>3 DEF WithType, View
<1>5. w.type \in Types
  BY <1>2, <1>3, <1>4 DEF View
<1> HIDE DEF w
<1>6. ViewOK(w, rs)
  BY <1>4 DEF ViewOK
<1>7. Current(w) = Current(v)
  BY <1>4 DEF Current
<1>8. CachesOK(v, rs) => CachesOK(w, rs) /\ w.type = rs[Current(v)].type
  BY <1>4, <1>7 DEF CachesOK
<1> QED
  BY <1>4, <1>5, <1>6, <1>7, <1>8 DEF w

LEMMA WithSkipOK ==
    ASSUME NEW rs \in Seq(Object), rs # <<>>, NEW v, ViewOK(v, rs)
    PROVE  LET w == WithSkip(v) IN
           /\ ViewOK(w, rs)
           /\ w.raw = v.raw /\ w.pending = v.pending /\ w.synced = v.synced
           /\ Current(w) = Current(v) /\ w.method = v.method /\ w.type = v.type
           /\ CachesOK(v, rs) => CachesOK(w, rs)
                                   /\ (w.skip # "yes" => rs[Current(v)].path \notin SkippedPaths)
<1> DEFINE w == WithSkip(v)
<1>1. v \in View
  BY DEF ViewOK
<1>2. /\ w \in View /\ w.raw = v.raw /\ w.pending = v.pending /\ w.synced = v.synced
      /\ w.current = v.current /\ w.method = v.method /\ w.path = v.path /\ w.type = v.type
      /\ w.skip = IF v.skip # "unset" THEN v.skip ELSE SkipOf(v.path)
  BY <1>1 DEF WithSkip, View, SkipOf
<1> HIDE DEF w
<1>3. ViewOK(w, rs)
  BY <1>2 DEF ViewOK
<1>4. Current(w) = Current(v)
  BY <1>2 DEF Current
<1>5. CachesOK(v, rs) => w.skip = SkipOf(rs[Current(v)].path)
  BY <1>2 DEF CachesOK
<1>6. CachesOK(v, rs) => CachesOK(w, rs)
  BY <1>2, <1>4, <1>5 DEF CachesOK
<1>7. w.skip # "yes" /\ CachesOK(v, rs) => rs[Current(v)].path \notin SkippedPaths
  BY <1>5 DEF SkipOf
<1> QED
  BY <1>2, <1>3, <1>4, <1>6, <1>7 DEF w

(* The unread copy that is left behind the accessor.                        *)
LEMMA ReplacedOK ==
    ASSUME NEW rs \in Seq(Object), rs # <<>>, NEW v, ViewOK(v, rs), v.pending = None
    PROVE  LET w == Replaced(v) IN
           /\ ViewOK(w, rs) /\ w.pending = v.raw /\ w.synced = v.synced
           /\ Source(w) = Source(v) /\ Current(w) = Current(v)
           /\ CachesOK(v, rs) => CachesOK(w, rs)
           /\ CurrentOK(v, rs) /\ v.raw \in v.synced => CurrentOK(w, rs)
<1> DEFINE w == Replaced(v)
<1>1. v \in View /\ v.raw \in 1..Len(rs) /\ v.raw # None
  BY SourceOK DEF ViewOK, None
<1>2. /\ w \in View /\ w.raw = None /\ w.pending = v.raw /\ w.synced = v.synced
      /\ w.current = v.current /\ w.method = v.method /\ w.path = v.path
      /\ w.type = v.type /\ w.skip = v.skip
  BY <1>1 DEF Replaced, View, None
<1> HIDE DEF w
<1>3. ViewOK(w, rs)
  BY <1>1, <1>2 DEF ViewOK, None
<1>4. Source(w) = Source(v) /\ Current(w) = Current(v)
  BY <1>1, <1>2 DEF Source, Current
<1>5. CachesOK(v, rs) => CachesOK(w, rs)
  BY <1>2, <1>4 DEF CachesOK
<1>6. CurrentOK(v, rs) /\ v.raw \in v.synced => CurrentOK(w, rs)
  BY <1>2, <1>4 DEF CurrentOK, IsSynced
<1> QED
  BY <1>2, <1>3, <1>4, <1>5, <1>6 DEF w

-----------------------------------------------------------------------------
(* The body is preserved.                                                   *)

LEMMA GrowsReflexive ==
    ASSUME NEW rs \in Seq(Object)
    PROVE  Grows(rs, rs)
  BY DEF Grows, Alike, SameHeaders

LEMMA IntactSame ==
    ASSUME NEW rs, NEW last, NEW v, NEW w, w.raw = v.raw, w.pending = v.pending,
           Intact(v, rs, last)
    PROVE  Intact(w, rs, last)
<1>1. Source(w) = Source(v)
  BY DEF Source
<1> QED
  BY <1>1 DEF Intact

LEMMA BodyFacts ==
    ASSUME BodyInv
    PROVE  /\ requests \in Seq(Object) /\ requests # <<>> /\ Len(requests) \in Nat
           /\ ViewOK(view, requests)
           /\ chain \in Seq(Layer) /\ Len(chain) \in Nat /\ layer \in Layer
           /\ layer.types \subseteq BodyTypes
           /\ layer.kind = "limit" => layer.limit = Unset
           /\ installed \in 1..Len(requests) /\ parsed \in 0..Len(requests)
<1>1. /\ requests \in Seq(Object) /\ installed \in 1..Len(requests)
      /\ parsed \in 0..Len(requests) /\ chain \in Chains /\ at \in 1..Len(chain)
      /\ ViewOK(view, requests)
  BY DEF BodyInv, TypeOK, ViewOK
<1>2. /\ chain \in Seq(Layer)
      /\ \A i \in 1..Len(chain) : chain[i].kind = "limit" => chain[i].limit = Unset
  BY <1>1, ChainsAssumption
<1>3. layer \in Layer /\ (layer.kind = "limit" => layer.limit = Unset)
  BY <1>1, <1>2 DEF layer
<1>4. layer.types \subseteq BodyTypes
  BY <1>3 DEF Layer
<1>5. requests # <<>> /\ Len(requests) \in Nat /\ Len(chain) \in Nat
  BY <1>1, <1>2
<1> QED
  BY <1>1, <1>2, <1>3, <1>4, <1>5

(* What a step has to show.                                                 *)
LEMMA BodyStep ==
    ASSUME BodyInv, transport' = transport, chain' = chain, at' \in {at, at + 1},
           at' <= Len(chain), step' \in {"enter", "user", "count", "parse", "read", "done"},
           Grows(requests, requests'), NoBodies(requests'), ViewOK(view', requests'),
           body' \in BodyTypes \cup {"undefined", "custom"},
           contentType' \in BodyTypes \cup {"unset"}, verdict' \in Verdicts,
           installed' \in 1..Len(requests'), parsed' \in 0..Len(requests'),
           step' \in {"count", "read"} => view'.pending = None,
           step' = "read" => contentType' \in BodyTypes,
           verdict' = "none" /\ step' # "done" => Intact(view', requests', installed')
    PROVE  BodyInv'
<1>1. at' \in 1..Len(chain')
  BY BodyFacts DEF BodyInv, TypeOK
<1>2. requests' \in Seq(Object)
  BY DEF Grows
<1>3. TypeOK'
  BY <1>1, <1>2 DEF BodyInv, TypeOK, ViewOK
<1>4. Served(requests)'
  <2>1. Served(requests')
    BY BodyFacts, GrowsOK DEF BodyInv
  <2> QED
    BY <2>1 DEF Served
<1>5. NoBodies(requests)' /\ AwaitInv' /\ IntactInv'
  BY DEF NoBodies, AwaitInv, IntactInv, Intact
<1> QED
  BY <1>3, <1>4, <1>5 DEF BodyInv

(* What enforceRawBodyLimit() does before it awaits.                        *)
LEMMA EnforceOK ==
    ASSUME NEW v, NEW request, Enforce(v, request)
    PROVE  /\ step' \in {"done", "parse", "count"}
           /\ UNCHANGED <<transport, chain, at, installed>>
           /\ verdict' \in {verdict, "tooLarge"} /\ (step' # "done" => verdict' = verdict)
           /\ step' = "parse" =>
                /\ request.declared # Unset /\ ~request.chunked /\ TrustsFraming(v)
                /\ ~Exceeds(LimitOf(v), request.declared)
  BY DEF Enforce, Fail, Goto

(* Between two layers.                                                      *)
Frame == UNCHANGED <<transport, chain, at, installed>>

LEMMA EnterLimitOK ==
    ASSUME EnterLimit
    PROVE  /\ step = "enter" /\ layer.kind = "limit"
           /\ requests' = WithCopy(Synced(view, requests), requests)
           /\ view' = Materialized(Synced(view, requests), requests')
           /\ Frame /\ UNCHANGED <<body, contentType, parsed>>
           /\ step' \in {"done", "parse", "count"}
           /\ verdict' \in {verdict, "tooLarge", "rejected"}
           /\ step' # "done" => verdict' = verdict
           /\ step' = "parse" =>
                \/ ~MayHaveBody(view', requests'[view'.raw])
                \/ LimitOf(view') = Unset
                \/ /\ requests'[view'.raw].declared # Unset /\ ~requests'[view'.raw].chunked
                   /\ TrustsFraming(view')
                   /\ ~Exceeds(LimitOf(view'), requests'[view'.raw].declared)
<1> DEFINE request == requests'[view'.raw]
<1>1. /\ step = "enter" /\ layer.kind = "limit"
      /\ ReadRaw(Synced(view, requests)) /\ UNCHANGED <<body, contentType, parsed>>
  BY DEF EnterLimit
<1>2. CASE /\ ~MayHaveBody(view', request) \/ LimitOf(view') = Unset
           /\ Goto("parse") /\ UNCHANGED verdict
  BY <1>1, <1>2 DEF ReadRaw, Goto, Frame
<1>3. CASE Enforce(view', request)
  <2>1. /\ step' \in {"done", "parse", "count"} /\ UNCHANGED <<transport, chain, at, installed>>
        /\ verdict' \in {verdict, "tooLarge"} /\ (step' # "done" => verdict' = verdict)
        /\ step' = "parse" =>
             /\ request.declared # Unset /\ ~request.chunked /\ TrustsFraming(view')
             /\ ~Exceeds(LimitOf(view'), request.declared)
    BY <1>3, EnforceOK
  <2> QED
    BY <1>1, <2>1 DEF ReadRaw, Frame
<1>4. CASE Fail("rejected")
  BY <1>1, <1>4 DEF ReadRaw, Fail, Goto, Frame
<1> QED
  BY <1>2, <1>3, <1>4 DEF EnterLimit

LEMMA EnterParserOK ==
    ASSUME EnterParser
    PROVE  /\ step = "enter" /\ layer.kind = "parser"
           /\ \/ layer.limit = Unset /\ UNCHANGED <<requests, view>> /\ step' = "parse"
              \/ /\ layer.limit # Unset
                 /\ requests' = WithCopy(view, requests)
                 /\ view' = Materialized(view, requests')
           /\ Frame /\ UNCHANGED <<body, contentType, parsed>>
           /\ step' \in {"done", "parse", "count"}
           /\ verdict' \in {verdict, "tooLarge"}
           /\ step' # "done" => verdict' = verdict
           /\ step' = "parse" =>
                \/ layer.limit = Unset
                \/ requests'[view'.raw].type \notin layer.types
                \/ /\ requests'[view'.raw].declared # Unset /\ ~requests'[view'.raw].chunked
                   /\ TrustsFraming(view')
                   /\ ~Exceeds(LimitOf(view'), requests'[view'.raw].declared)
<1> DEFINE request == requests'[view'.raw]
<1>1. /\ step = "enter" /\ layer.kind = "parser" /\ UNCHANGED <<body, contentType, parsed>>
  BY DEF EnterParser
<1>2. CASE layer.limit = Unset
  BY <1>1, <1>2 DEF EnterParser, Goto, Frame
<1>3. CASE layer.limit # Unset /\ request.type \in layer.types
  <2>1. Enforce(view', request) /\ ReadRaw(view)
    BY <1>3 DEF EnterParser
  <2>2. /\ step' \in {"done", "parse", "count"} /\ UNCHANGED <<transport, chain, at, installed>>
        /\ verdict' \in {verdict, "tooLarge"} /\ (step' # "done" => verdict' = verdict)
        /\ step' = "parse" =>
             /\ request.declared # Unset /\ ~request.chunked /\ TrustsFraming(view')
             /\ ~Exceeds(LimitOf(view'), request.declared)
    BY <2>1, EnforceOK
  <2> QED
    BY <1>1, <1>3, <2>1, <2>2 DEF ReadRaw, Frame
<1>4. CASE layer.limit # Unset /\ request.type \notin layer.types
  BY <1>1, <1>4 DEF EnterParser, ReadRaw, Goto, Frame
<1> QED
  BY <1>2, <1>3, <1>4

LEMMA BodyInit == Init => BodyInv
<1> SUFFICES ASSUME Init PROVE BodyInv
  OBVIOUS
<1>1. PICK server \in Servers :
        /\ transport = server.transport
        /\ requests = <<Created(server.request, 1)>>
        /\ view = [raw |-> 1, pending |-> None, current |-> None, synced |-> {1},
                   method |-> server.request.method, path |-> server.request.path,
                   type |-> "unset", skip |-> "unset"]
  BY DEF Init
<1> DEFINE r == server.request
           o == Created(r, 1)
<1>2. r \in Request
  BY ServersAssumption
<1>3. /\ o \in Object /\ SameHeaders(o, r) /\ o.hasBody = r.hasBody /\ o.size = r.size
      /\ ~o.used
  BY <1>2, CreatedOK
<1>4. /\ transport \in {"node", "bun", "direct"}
      /\ transport # "direct" => Frames(r)
      /\ transport = "node" => r.hasBody \/ NoBody(r.method)
      /\ NoBody(r.method) => ~r.hasBody
  BY <1>1, ServersAssumption, RequestAssumption
<1>5. r.method \in Methods /\ r.path \in Paths
  BY <1>2 DEF Request
<1> HIDE DEF r, o
<1>6. requests \in Seq(Object) /\ Len(requests) = 1 /\ requests[1] = o
  BY <1>1, <1>3 DEF o, r
<1>7. /\ view \in View /\ view.raw = 1 /\ view.pending = None /\ view.current = None
      /\ view.synced = {1}
  BY <1>1, <1>5 DEF View, None, r
<1>8. at \in 1..Len(chain) /\ chain \in Chains
  BY ChainsAssumption DEF Init
<1>9. TypeOK
  BY <1>4, <1>6, <1>7, <1>8 DEF TypeOK, Init, None, Verdicts
<1>10. Served(requests) /\ NoBodies(requests)
  BY <1>3, <1>4, <1>6 DEF Served, NoBodies, SameHeaders, Frames
<1>11. AwaitInv
  BY <1>7 DEF AwaitInv, Init
<1>12. IntactInv
  <2>1. installed = 1 /\ Source(view) = 1
    BY <1>7 DEF Init, Source
  <2> QED
    BY <1>3, <1>6, <2>1 DEF IntactInv, Intact
<1> QED
  BY <1>9, <1>10, <1>11, <1>12 DEF BodyInv

(* Middleware and the route.                                                *)
LEMMA BodyMiddleware == BodyInv /\ Middleware => BodyInv'
<1> SUFFICES ASSUME BodyInv, Middleware PROVE BodyInv'
  OBVIOUS
<1> USE BodyFacts
<1>1. /\ at \in 1..Len(chain) /\ Len(chain) \in Nat /\ verdict \in Verdicts
      /\ step \in {"enter", "user", "count", "parse", "read", "done"}
      /\ body \in BodyTypes \cup {"undefined", "custom"}
      /\ contentType \in BodyTypes \cup {"unset"}
      /\ NoBodies(requests) /\ IntactInv
  BY DEF BodyInv, TypeOK
<1>2. Grows(requests, requests)
  BY GrowsReflexive
<1>3. CASE EnterHono
  BY <1>1, <1>2, <1>3, BodyStep DEF EnterHono, Goto, IntactInv
<1>4. CASE EnterNest
  <2>1. /\ ViewOK(view', requests) /\ view'.raw = view.raw /\ view'.pending = view.pending
    BY <1>4, SyncedOK DEF EnterNest
  <2>2. step = "enter" /\ step' = "user" /\ Frame
          /\ UNCHANGED <<requests, body, contentType, verdict, parsed>>
    BY <1>4 DEF EnterNest, Goto, Frame
  <2>3. verdict' = "none" => Intact(view', requests', installed')
    BY <1>1, <2>1, <2>2, IntactSame DEF IntactInv, Frame
  <2> QED
    BY <1>1, <1>2, <2>1, <2>2, <2>3, BodyStep DEF Frame
<1>5. CASE Look
  <2>1. /\ requests' = WithCopy(view, requests) /\ view' = Materialized(view, requests')
        /\ UNCHANGED <<transport, chain, at, step, body, contentType, verdict, installed, parsed>>
        /\ step = "user"
    BY <1>5 DEF Look, ReadRaw, InMiddleware
  <2>2. /\ Grows(requests, requests') /\ ViewOK(view', requests') /\ view'.pending = None
        /\ NoBodies(requests')
        /\ \A last \in 1..Len(requests) :
             Intact(view, requests, last) => Intact(view', requests', last)
    BY <1>1, <2>1, ReadRawOK
  <2>3. Len(requests') \in Nat /\ Len(requests) <= Len(requests')
    BY <2>2 DEF Grows
  <2> QED
    BY <1>1, <2>1, <2>2, <2>3, BodyStep DEF IntactInv
<1>6. CASE CallNext
  <2>1. /\ at' = at + 1 /\ at' <= Len(chain) /\ step = "user" /\ step' = "enter"
        /\ UNCHANGED <<transport, chain, installed, requests, view, body, contentType,
                       verdict, parsed>>
    BY <1>1, <1>6 DEF CallNext, NextLayer, InMiddleware
  <2> QED
    BY <1>1, <1>2, <2>1, BodyStep DEF IntactInv
<1>7. CASE HandlerReads
  <2> DEFINE rs == WithCopy(view, requests)
             v == Materialized(view, rs)
  <2>1. /\ requests' = Used(rs, v.raw) /\ view' = v /\ step' = "done" /\ Frame
        /\ UNCHANGED <<body, contentType, verdict, parsed>>
    BY <1>7 DEF HandlerReads, Goto, Frame
  <2>2. /\ Grows(requests, rs) /\ ViewOK(v, rs) /\ v.raw \in 1..Len(rs) /\ NoBodies(rs)
        /\ rs # <<>>
    BY <1>1, ReadRawOK
  <2> HIDE DEF rs, v
  <2>3. rs \in Seq(Object) /\ Len(rs) \in Nat /\ Len(requests) <= Len(rs)
    BY <2>2 DEF Grows
  <2>4. Grows(rs, requests') /\ Len(requests') = Len(rs)
    BY <2>1, <2>2, <2>3, UsedOK
  <2>5. Grows(requests, requests')
    BY <2>2, <2>3, <2>4, GrowsTransitive
  <2>6. ViewOK(view', requests')
    BY <2>1, <2>2, <2>3, <2>4, GrowsOK
  <2>7. NoBodies(requests')
    BY <2>2, <2>4 DEF NoBodies, Grows, Alike, SameHeaders
  <2> QED
    BY <1>1, <2>1, <2>3, <2>4, <2>5, <2>6, <2>7, BodyStep DEF Frame
<1>8. ASSUME NEW request \in Replacements, Replace(request)
      PROVE  BodyInv'
  <2> DEFINE n == Len(requests) + 1
             o == Created(request, n)
  <2>1. /\ requests' = Append(requests, o) /\ view' = Assigned(view, requests', Len(requests'))
        /\ installed' = Len(requests') /\ step = "user"
        /\ UNCHANGED <<transport, chain, at, step, body, contentType, verdict, parsed>>
    BY <1>8 DEF Replace, InMiddleware
  <2>2. request \in Request /\ (NoBody(request.method) => ~request.hasBody)
    BY ReplacementsAssumption, RequestAssumption
  <2>3. /\ o \in Object /\ SameHeaders(o, request) /\ o.hasBody = request.hasBody /\ ~o.used
    BY <2>2, CreatedOK
  <2> HIDE DEF o
  <2>4. /\ Grows(requests, requests') /\ Len(requests') = n /\ requests'[n] = o
        /\ \A i \in 1..Len(requests) : requests'[i] = requests[i]
    BY <2>1, <2>3, AppendOK
  <2>5. requests' \in Seq(Object) /\ n \in 1..Len(requests') /\ requests' # <<>>
    BY <2>4 DEF Grows
  <2>6. ViewOK(view, requests')
    BY <2>4, GrowsOK
  <2>7. ViewOK(view', requests') /\ view'.raw = n /\ view'.pending = None
    <3>1. view' = Assigned(view, requests', n) /\ n \in 1..Len(requests')
      BY <2>1, <2>4, <2>5
    <3> HIDE DEF n
    <3> QED
      BY <2>5, <2>6, <3>1, AssignedOK
  <2>8. Intact(view', requests', installed')
    BY <2>1, <2>3, <2>4, <2>7 DEF Intact, Source
  <2>9. NoBodies(requests')
    BY <1>1, <2>2, <2>3, <2>4 DEF NoBodies, SameHeaders
  <2> QED
    BY <1>1, <2>1, <2>4, <2>5, <2>7, <2>8, <2>9, BodyStep
<1>9. ASSUME NEW id \in 1..Len(requests), Restore(id)
      PROVE  BodyInv'
  <2>1. /\ view' = Assigned(view, requests, id) /\ installed' = id /\ ~requests[id].used
        /\ step = "user"
        /\ UNCHANGED <<transport, chain, at, step, requests, body, contentType, verdict, parsed>>
    BY <1>9 DEF Restore, InMiddleware
  <2>2. ViewOK(view', requests) /\ view'.raw = id /\ view'.pending = None
    BY <2>1, AssignedOK
  <2>3. Intact(view', requests', installed')
    BY <2>1, <2>2 DEF Intact, Source
  <2> QED
    BY <1>1, <1>2, <2>1, <2>2, <2>3, BodyStep
<1>10. ASSUME NEW value \in {"undefined", "custom"}, SetBody(value)
       PROVE  BodyInv'
  <2>1. /\ body' \in {"undefined", "custom"} /\ step = "user"
        /\ UNCHANGED <<transport, chain, at, step, requests, view, contentType, verdict,
                       installed, parsed>>
    BY <1>10 DEF SetBody, InMiddleware
  <2> QED
    BY <1>1, <1>2, <2>1, BodyStep DEF IntactInv
<1> QED
  BY <1>3, <1>4, <1>5, <1>6, <1>7, <1>8, <1>9, <1>10 DEF Middleware

(* Reading ctx.req.raw at the start of a layer, whatever is decided then.   *)
LEMMA BodyReadsRaw ==
    ASSUME BodyInv, NEW v, ViewOK(v, requests), v.raw = view.raw, v.pending = view.pending,
           requests' = WithCopy(v, requests), view' = Materialized(v, requests'), Frame,
           UNCHANGED <<body, parsed>>, contentType' \in BodyTypes \cup {"unset"},
           step' = "read" => contentType' \in BodyTypes,
           verdict' \in Verdicts, step' \in {"count", "parse", "read", "done"},
           step # "done", step' # "done" => verdict' = verdict
    PROVE  BodyInv'
<1> USE BodyFacts
<1>1. at \in 1..Len(chain) /\ body \in BodyTypes \cup {"undefined", "custom"}
        /\ NoBodies(requests)
  BY DEF BodyInv, TypeOK
<1>2. /\ Grows(requests, requests') /\ ViewOK(view', requests') /\ view'.pending = None
      /\ NoBodies(requests')
      /\ \A last \in 1..Len(requests) :
           Intact(v, requests, last) => Intact(view', requests', last)
  BY <1>1, ReadRawOK
<1>3. Len(requests') \in Nat /\ Len(requests) <= Len(requests')
  BY <1>2 DEF Grows
<1>4. ASSUME verdict' = "none", step' # "done"
      PROVE  Intact(view', requests', installed')
  <2>1. Intact(view, requests, installed)
    BY <1>4 DEF BodyInv, IntactInv
  <2>2. Intact(v, requests, installed)
    BY <2>1, IntactSame
  <2> QED
    BY <1>2, <2>2 DEF Frame
<1> QED
  BY <1>1, <1>2, <1>3, <1>4, BodyStep DEF Frame

LEMMA BodyEnterLimit == BodyInv /\ EnterLimit => BodyInv'
<1> SUFFICES ASSUME BodyInv, EnterLimit PROVE BodyInv'
  OBVIOUS
<1> DEFINE v == Synced(view, requests)
<1>1. ViewOK(v, requests) /\ v.raw = view.raw /\ v.pending = view.pending
  BY BodyFacts, SyncedOK
<1>2. /\ step = "enter" /\ Frame /\ UNCHANGED <<body, contentType, parsed>>
      /\ requests' = WithCopy(v, requests) /\ view' = Materialized(v, requests')
      /\ step' \in {"done", "parse", "count"} /\ verdict' \in {verdict, "tooLarge", "rejected"}
      /\ step' # "done" => verdict' = verdict
  BY EnterLimitOK
<1>3. verdict' \in Verdicts /\ contentType' \in BodyTypes \cup {"unset"}
  BY <1>2 DEF BodyInv, TypeOK, Verdicts
<1> HIDE DEF v
<1> QED
  BY <1>1, <1>2, <1>3, BodyReadsRaw

LEMMA BodyEnterParser == BodyInv /\ EnterParser => BodyInv'
<1> SUFFICES ASSUME BodyInv, EnterParser PROVE BodyInv'
  OBVIOUS
<1> USE BodyFacts
<1>1. /\ step = "enter" /\ Frame /\ UNCHANGED <<body, contentType, parsed>>
      /\ step' \in {"done", "parse", "count"} /\ verdict' \in {verdict, "tooLarge"}
      /\ step' # "done" => verdict' = verdict
  BY EnterParserOK
<1>2. /\ verdict' \in Verdicts /\ contentType' \in BodyTypes \cup {"unset"}
      /\ body' \in BodyTypes \cup {"undefined", "custom"} /\ at \in 1..Len(chain)
      /\ NoBodies(requests) /\ IntactInv
  BY <1>1 DEF BodyInv, TypeOK, Verdicts
<1>3. CASE requests' = WithCopy(view, requests) /\ view' = Materialized(view, requests')
  BY <1>1, <1>2, <1>3, BodyReadsRaw
<1>4. CASE UNCHANGED <<requests, view>> /\ step' = "parse"
  <2>1. Grows(requests, requests')
    BY <1>4, GrowsReflexive
  <2> QED
    BY <1>1, <1>2, <1>4, <2>1, BodyStep DEF Frame, IntactInv
<1> QED
  BY <1>3, <1>4, EnterParserOK

(* The body that arrives is read from the connection, which is the one of   *)
(* a request without body.                                                  *)
LEMMA BodyCountIncoming == BodyInv /\ CountIncoming => BodyInv'
<1> SUFFICES ASSUME BodyInv, CountIncoming PROVE BodyInv'
  OBVIOUS
<1> USE BodyFacts
<1>1. /\ step = "count" /\ view.pending = None /\ ~requests[view.raw].hasBody
      /\ at \in 1..Len(chain) /\ NoBodies(requests) /\ Served(requests)
      /\ body \in BodyTypes \cup {"undefined", "custom"}
      /\ contentType \in BodyTypes \cup {"unset"} /\ verdict \in Verdicts
  BY DEF CountIncoming, BodyInv, TypeOK, AwaitInv
<1>2. /\ UNCHANGED <<view, body, contentType, parsed>> /\ Frame
      /\ step' \in {"parse", "done"} /\ verdict' \in {verdict, "tooLarge"}
      /\ step' # "done" => verdict' = verdict
  BY DEF CountIncoming, Fail, Goto, Frame
<1>3. \/ requests' = requests
      \/ requests' = Used(requests, 1) /\ transport = "node"
  BY DEF CountIncoming
<1>4. 1 \in 1..Len(requests) /\ view.raw \in 1..Len(requests) /\ Source(view) = view.raw
  BY <1>1, SourceOK DEF Source
<1>5. Grows(requests, requests') /\ Len(requests') = Len(requests)
  BY <1>3, <1>4, GrowsReflexive, UsedOK
<1>6. NoBodies(requests')
  BY <1>1, <1>5 DEF NoBodies, Grows, Alike, SameHeaders
<1>7. ViewOK(view', requests')
  BY <1>2, <1>5, GrowsOK
<1>8. ASSUME verdict' = "none", step' # "done"
      PROVE  Intact(view', requests', installed')
  <2>1. Intact(view, requests, installed)
    BY <1>1, <1>2, <1>8 DEF BodyInv, IntactInv
  <2>2. /\ Alike(requests'[view.raw], requests[view.raw])
        /\ Alike(requests'[installed], requests[installed])
    BY <1>4, <1>5 DEF Grows
  <2>3. ~NoBody(requests[view.raw].method) => requests'[view.raw] = requests[view.raw]
    <3> SUFFICES ASSUME ~NoBody(requests[view.raw].method), requests' = Used(requests, 1),
                        transport = "node"
                 PROVE  requests'[view.raw] = requests[view.raw]
      BY <1>3
    <3>1. view.raw # 1
      BY <1>1 DEF Served
    <3> QED
      BY <1>4, <3>1, UsedOK
  <2> QED
    BY <1>1, <1>2, <1>4, <2>1, <2>2, <2>3 DEF Intact, Frame, Alike, SameHeaders
<1> QED
  BY <1>1, <1>2, <1>5, <1>6, <1>7, <1>8, BodyStep DEF Frame, Verdicts

(* What was counted is the body of a new request.                           *)
CountedIs(after, v) ==
    /\ Grows(requests, after) /\ after # <<>> /\ NoBodies(after)
    /\ ViewOK(v, after) /\ v.raw \in 1..Len(after) /\ v.pending = None
    /\ SameHeaders(after[v.raw], requests[view.raw])
    /\ after[v.raw].content = requests[view.raw].content
    /\ after[v.raw].size = requests[view.raw].size /\ ~after[v.raw].used
    /\ CachesOK(view, requests) => CachesOK(v, after)
    /\ CachesOK(view, requests) /\ CurrentOK(view, requests) => CurrentOK(v, after)

LEMMA CountBodyOK ==
    ASSUME BodyInv, CountBody
    PROVE  /\ step = "count" /\ requests[view.raw].hasBody /\ view.pending = None
           /\ view.raw \in 1..Len(requests) /\ Frame /\ UNCHANGED <<body, contentType, parsed>>
           /\ \/ /\ step' = "done" /\ verdict' \in {"tooLarge", "rejected", "failed"}
                 /\ requests' = Used(requests, view.raw) /\ view' = view
              \/ /\ step' = "parse" /\ verdict' = verdict
                 /\ ~Exceeds(LimitOf(view), requests[view.raw].size)
                 /\ CountedIs(requests', view')
<1> USE BodyFacts
<1> DEFINE request == requests[view.raw]
           used == Used(requests, view.raw)
           copy == Copy(request)
           n == Len(requests) + 1
           copied == Append(used, copy)
           v == Assigned(view, copied, Len(copied))
<1>1. /\ step = "count" /\ view.pending = None /\ request.hasBody
      /\ UNCHANGED <<body, contentType, parsed>> /\ NoBodies(requests)
  BY DEF CountBody, BodyInv, AwaitInv
<1>2. view.raw \in 1..Len(requests) /\ request \in Object /\ ~NoBody(request.method)
  <2>1. view.raw \in 1..Len(requests)
    BY <1>1, SourceOK
  <2> QED
    BY <1>1, <2>1 DEF NoBodies
<1>3. /\ copy \in Object /\ SameHeaders(copy, request) /\ copy.content = request.content
      /\ ~copy.used /\ copy.size = request.size
  BY <1>2, CopyOK
<1>4. Grows(requests, used) /\ Len(used) = Len(requests) /\ used \in Seq(Object)
  BY <1>2, UsedOK DEF Grows
<1> HIDE DEF used, copy
<1>5. /\ Grows(used, copied) /\ Len(copied) = n /\ copied[n] = copy
      /\ \A i \in 1..Len(used) : copied[i] = used[i]
  BY <1>3, <1>4, AppendOK
<1>6. copied \in Seq(Object) /\ copied # <<>> /\ n \in 1..Len(copied)
  BY <1>5 DEF Grows
<1>7. v = Assigned(view, copied, n)
  BY <1>5
<1> HIDE DEF copied
<1>8. Grows(requests, copied)
  BY <1>4, <1>5, <1>6, GrowsTransitive
<1>9. /\ ViewOK(view, copied)
      /\ CachesOK(view, requests) => CachesOK(view, copied)
      /\ CurrentOK(view, requests) => CurrentOK(view, copied)
  BY <1>8, GrowsOK
<1>10. n \notin view.synced
  BY DEF ViewOK
<1> HIDE DEF v, n
<1>11. /\ ViewOK(v, copied) /\ v.raw = n /\ v.pending = None
       /\ CachesOK(view, copied) => CachesOK(v, copied)
       /\ CachesOK(view, copied) /\ 1 \in view.synced => CurrentOK(v, copied)
  BY <1>6, <1>7, <1>9, <1>10, AssignedOK
<1> DEFINE w == IF layer.kind = "limit" THEN Synced(v, copied) ELSE v
<1>12. /\ ViewOK(w, copied) /\ w.raw = n /\ w.pending = None
       /\ CachesOK(v, copied) => CachesOK(w, copied)
       /\ CachesOK(v, copied) /\ CurrentOK(v, copied) => CurrentOK(w, copied)
  BY <1>6, <1>11, SyncedOK
<1> HIDE DEF w
<1>13. NoBodies(copied)
  <2> SUFFICES ASSUME NEW i \in 1..Len(copied), NoBody(copied[i].method)
               PROVE  ~copied[i].hasBody
    BY DEF NoBodies
  <2>1. i # n
    BY <1>2, <1>3, <1>5 DEF SameHeaders
  <2>2. i \in 1..Len(requests)
    BY <1>5, <2>1 DEF n
  <2>3. Alike(copied[i], requests[i])
    BY <1>8, <2>2 DEF Grows
  <2> QED
    BY <1>1, <2>2, <2>3 DEF NoBodies, Alike, SameHeaders
<1>14. CountedIs(copied, w)
  <2>1. CachesOK(view, requests) => CachesOK(w, copied)
    BY <1>9, <1>11, <1>12
  <2>2. CachesOK(view, requests) /\ CurrentOK(view, requests) => CurrentOK(w, copied)
    BY <1>9, <1>11, <1>12 DEF CurrentOK
  <2> QED
    BY <1>3, <1>5, <1>6, <1>8, <1>12, <1>13, <2>1, <2>2 DEF CountedIs
<1>15. \/ /\ ~Exceeds(LimitOf(view), request.size) /\ requests' = copied /\ view' = w
          /\ Goto("parse") /\ UNCHANGED verdict
       \/ /\ \E reason \in {"tooLarge", "rejected", "failed"} : Fail(reason)
          /\ requests' = used /\ UNCHANGED view
  BY DEF CountBody, copied, w, v, copy, used
<1> QED
  BY <1>1, <1>2, <1>14, <1>15 DEF Fail, Goto, Frame, used

LEMMA UsedBody ==
    ASSUME BodyInv, NEW id \in 1..Len(requests)
    PROVE  /\ Grows(requests, Used(requests, id)) /\ NoBodies(Used(requests, id))
           /\ Len(Used(requests, id)) = Len(requests)
           /\ ViewOK(view, Used(requests, id))
<1>1. Grows(requests, Used(requests, id)) /\ Len(Used(requests, id)) = Len(requests)
  BY BodyFacts, UsedOK
<1>2. ViewOK(view, Used(requests, id))
  BY <1>1, BodyFacts, GrowsOK
<1>3. NoBodies(Used(requests, id))
  BY <1>1 DEF BodyInv, NoBodies, Grows, Alike, SameHeaders
<1> QED
  BY <1>1, <1>2, <1>3

LEMMA BodyCountBody == BodyInv /\ CountBody => BodyInv'
<1> SUFFICES ASSUME BodyInv, CountBody PROVE BodyInv'
  OBVIOUS
<1> USE BodyFacts
<1>1. /\ step = "count" /\ view.pending = None /\ view.raw \in 1..Len(requests) /\ Frame
      /\ UNCHANGED <<body, contentType, parsed>>
  BY CountBodyOK
<1>2. /\ at \in 1..Len(chain) /\ body \in BodyTypes \cup {"undefined", "custom"}
      /\ contentType \in BodyTypes \cup {"unset"} /\ verdict \in Verdicts /\ IntactInv
  BY DEF BodyInv, TypeOK
<1>3. CASE /\ step' = "done" /\ verdict' \in {"tooLarge", "rejected", "failed"}
           /\ requests' = Used(requests, view.raw) /\ view' = view
  <2>1. Grows(requests, requests') /\ NoBodies(requests') /\ ViewOK(view', requests')
          /\ Len(requests') = Len(requests)
    BY <1>1, <1>3, UsedBody
  <2> QED
    BY <1>1, <1>2, <1>3, <2>1, BodyStep DEF Frame, Verdicts
<1>4. CASE step' = "parse" /\ verdict' = verdict /\ CountedIs(requests', view')
  <2>1. /\ Grows(requests, requests') /\ NoBodies(requests') /\ ViewOK(view', requests')
        /\ view'.pending = None
    BY <1>4 DEF CountedIs
  <2>2. Len(requests') \in Nat /\ Len(requests) <= Len(requests')
    BY <2>1 DEF Grows
  <2>3. ASSUME verdict' = "none"
        PROVE  Intact(view', requests', installed')
    <3>1. Intact(view, requests, installed)
      BY <1>1, <1>2, <1>4, <2>3 DEF IntactInv
    <3>2. Alike(requests'[installed], requests[installed])
      BY <2>1 DEF Grows
    <3>3. Source(view) = view.raw /\ Source(view') = view'.raw
      BY <1>1, <2>1 DEF Source
    <3> QED
      BY <1>1, <1>4, <3>1, <3>2, <3>3 DEF CountedIs, Intact, Alike, SameHeaders, Frame
  <2> QED
    BY <1>1, <1>2, <1>4, <2>1, <2>2, <2>3, BodyStep DEF Frame
<1> QED
  BY <1>3, <1>4, CountBodyOK

(* The view of a parser after each of its questions.                        *)
Seen == Synced(view, requests)
Typed == WithType(Seen, requests)
Asked == WithSkip(Typed)

LEMMA ParseOK ==
    ASSUME Parse
    PROVE  /\ step = "parse" /\ UNCHANGED <<transport, chain, installed, body, verdict, parsed>>
           /\ \/ /\ view' \in {view, Seen, Typed, Asked} /\ step' = "enter"
                 /\ at' = at + 1 /\ at < Len(chain) /\ UNCHANGED <<requests, contentType>>
              \/ /\ Seen.method # "GET" /\ Typed.type \in layer.types /\ Asked.skip # "yes"
                 /\ requests' = WithCopy(Asked, requests)
                 /\ view' = Materialized(Asked, requests')
                 /\ contentType' = Typed.type /\ step' = "read" /\ at' = at
<1>1. step = "parse" /\ UNCHANGED <<body, parsed>>
  BY DEF Parse
<1>2. CASE PassOn(view) \/ PassOn(Seen) \/ PassOn(Typed) \/ PassOn(Asked)
  BY <1>1, <1>2 DEF PassOn, NextLayer
<1>3. CASE /\ Seen.method # "GET" /\ Typed.type \in layer.types /\ Asked.skip # "yes"
           /\ ReadRaw(Asked) /\ contentType' = Typed.type /\ Goto("read") /\ UNCHANGED verdict
  BY <1>1, <1>3 DEF ReadRaw, Goto
<1> QED
  BY <1>2, <1>3 DEF Parse, Seen, Typed, Asked

LEMMA AskedOK ==
    ASSUME BodyInv
    PROVE  /\ \A v \in {view, Seen, Typed, Asked} :
                /\ ViewOK(v, requests) /\ v.raw = view.raw /\ v.pending = view.pending
                /\ CachesOK(view, requests) => CachesOK(v, requests)
                /\ CachesOK(view, requests) /\ CurrentOK(view, requests) =>
                     CurrentOK(v, requests)
           /\ IsSynced(Asked)
           /\ CachesOK(view, requests) =>
                /\ Seen.method = requests[Current(Asked)].method
                /\ Typed.type = requests[Current(Asked)].type
                /\ Asked.skip # "yes" => requests[Current(Asked)].path \notin SkippedPaths
<1> USE BodyFacts
<1>1. /\ ViewOK(Seen, requests) /\ Seen.raw = view.raw /\ Seen.pending = view.pending
      /\ IsSynced(Seen)
      /\ CachesOK(view, requests) => CachesOK(Seen, requests)
      /\ CachesOK(view, requests) /\ CurrentOK(view, requests) => CurrentOK(Seen, requests)
  BY SyncedOK DEF Seen
<1>2. /\ ViewOK(Typed, requests)
      /\ Typed.raw = Seen.raw /\ Typed.pending = Seen.pending /\ Typed.synced = Seen.synced
      /\ Current(Typed) = Current(Seen) /\ Typed.method = Seen.method
      /\ CachesOK(Seen, requests) =>
           CachesOK(Typed, requests) /\ Typed.type = requests[Current(Seen)].type
  BY <1>1, WithTypeOK DEF Typed
<1>3. /\ ViewOK(Asked, requests)
      /\ Asked.raw = Typed.raw /\ Asked.pending = Typed.pending /\ Asked.synced = Typed.synced
      /\ Current(Asked) = Current(Typed)
      /\ CachesOK(Typed, requests) =>
           /\ CachesOK(Asked, requests)
           /\ Asked.skip # "yes" => requests[Current(Typed)].path \notin SkippedPaths
  BY <1>2, WithSkipOK DEF Asked
<1>4. Source(Typed) = Source(Seen) /\ Source(Asked) = Source(Seen)
  BY <1>2, <1>3 DEF Source
<1>5. IsSynced(Typed) /\ IsSynced(Asked)
  BY <1>1, <1>2, <1>3 DEF IsSynced
<1>6. CurrentOK(Seen, requests) => CurrentOK(Typed, requests) /\ CurrentOK(Asked, requests)
  BY <1>1, <1>2, <1>3, <1>4, <1>5 DEF CurrentOK
<1>7. CachesOK(Seen, requests) => Seen.method = requests[Current(Seen)].method
  BY DEF CachesOK
<1> QED
  BY <1>1, <1>2, <1>3, <1>5, <1>6, <1>7

LEMMA BodyParse == BodyInv /\ Parse => BodyInv'
<1> SUFFICES ASSUME BodyInv, Parse PROVE BodyInv'
  OBVIOUS
<1> USE BodyFacts
<1>1. step = "parse" /\ UNCHANGED <<transport, chain, installed, body, verdict, parsed>>
  BY ParseOK
<1>2. /\ at \in 1..Len(chain) /\ body \in BodyTypes \cup {"undefined", "custom"}
      /\ contentType \in BodyTypes \cup {"unset"} /\ verdict \in Verdicts /\ IntactInv
      /\ NoBodies(requests)
  BY DEF BodyInv, TypeOK
<1>3. CASE /\ view' \in {view, Seen, Typed, Asked} /\ step' = "enter"
           /\ at' = at + 1 /\ at < Len(chain) /\ UNCHANGED <<requests, contentType>>
  <2>1. ViewOK(view', requests) /\ view'.raw = view.raw /\ view'.pending = view.pending
    BY <1>3, AskedOK
  <2>2. verdict' = "none" => Intact(view', requests', installed')
    BY <1>1, <1>2, <1>3, <2>1, IntactSame DEF IntactInv
  <2>3. Grows(requests, requests') /\ at' <= Len(chain)
    BY <1>2, <1>3, GrowsReflexive
  <2> QED
    BY <1>1, <1>2, <1>3, <2>1, <2>2, <2>3, BodyStep
<1>4. CASE /\ Typed.type \in layer.types
           /\ requests' = WithCopy(Asked, requests) /\ view' = Materialized(Asked, requests')
           /\ contentType' = Typed.type /\ step' = "read" /\ at' = at
  <2>1. ViewOK(Asked, requests) /\ Asked.raw = view.raw /\ Asked.pending = view.pending
    BY AskedOK
  <2>2. contentType' \in BodyTypes
    BY <1>4
  <2> QED
    BY <1>1, <1>2, <1>4, <2>1, <2>2, BodyReadsRaw DEF Frame
<1> QED
  BY <1>3, <1>4, ParseOK

LEMMA ReadBodyOK ==
    ASSUME ReadBody
    PROVE  /\ step = "read" /\ requests' = Used(requests, view.raw) /\ contentType' = "unset"
           /\ UNCHANGED <<transport, chain, installed>>
           /\ \/ /\ step' = "done" /\ at' = at /\ view' \in {view, Replaced(view)}
                 /\ verdict' \in {"failed", "malformed"} /\ UNCHANGED <<body, parsed>>
              \/ /\ step' = "enter" /\ at' = at + 1 /\ at < Len(chain) /\ UNCHANGED verdict
                 /\ view' = Replaced(view) /\ body' = contentType /\ parsed' = view.raw
  BY DEF ReadBody, Fail, Goto, NextLayer

LEMMA BodyReadBody == BodyInv /\ ReadBody => BodyInv'
<1> SUFFICES ASSUME BodyInv, ReadBody PROVE BodyInv'
  OBVIOUS
<1> USE BodyFacts
<1>1. /\ step = "read" /\ requests' = Used(requests, view.raw) /\ contentType' = "unset"
      /\ UNCHANGED <<transport, chain, installed>>
  BY ReadBodyOK
<1>2. /\ at \in 1..Len(chain) /\ body \in BodyTypes \cup {"undefined", "custom"}
      /\ contentType \in BodyTypes \cup {"unset"} /\ verdict \in Verdicts /\ IntactInv
      /\ view.pending = None /\ contentType \in BodyTypes
  BY <1>1 DEF BodyInv, TypeOK, AwaitInv
<1>3. view.raw \in 1..Len(requests) /\ Source(view) = view.raw
  BY <1>2, SourceOK DEF Source
<1>4. Grows(requests, requests') /\ NoBodies(requests') /\ ViewOK(view, requests')
        /\ Len(requests') = Len(requests)
  BY <1>1, <1>3, UsedBody
<1>5. requests' \in Seq(Object) /\ requests' # <<>>
  BY <1>4 DEF Grows
<1>6. LET w == Replaced(view) IN
      ViewOK(w, requests') /\ w.pending = view.raw /\ Source(w) = view.raw
  BY <1>2, <1>3, <1>4, <1>5, ReplacedOK
<1>7. CASE /\ step' = "done" /\ at' = at /\ view' \in {view, Replaced(view)}
           /\ verdict' \in {"failed", "malformed"} /\ UNCHANGED <<body, parsed>>
  BY <1>1, <1>2, <1>4, <1>6, <1>7, BodyStep DEF Verdicts
<1>8. CASE /\ step' = "enter" /\ at' = at + 1 /\ at < Len(chain) /\ UNCHANGED verdict
           /\ view' = Replaced(view) /\ body' = contentType /\ parsed' = view.raw
  <2>1. ASSUME verdict' = "none"
        PROVE  Intact(view', requests', installed')
    <3>1. Intact(view, requests, installed)
      BY <1>1, <1>2, <1>8, <2>1 DEF IntactInv
    <3>2. /\ Alike(requests'[installed], requests[installed])
          /\ Alike(requests'[view.raw], requests[view.raw])
      BY <1>3, <1>4 DEF Grows
    <3>3. Source(view') = view.raw /\ view'.pending # None
      BY <1>3, <1>6, <1>8 DEF None
    <3> QED
      BY <1>1, <1>3, <3>1, <3>2, <3>3 DEF Intact, Alike, SameHeaders
  <2>2. body' \in BodyTypes \cup {"undefined", "custom"}
    BY <1>8, <1>2
  <2> QED
    BY <1>1, <1>2, <1>3, <1>4, <1>6, <1>8, <2>1, <2>2, BodyStep
<1> QED
  BY <1>7, <1>8, ReadBodyOK

LEMMA BodyNext == BodyInv /\ [Next]_vars => BodyInv'
<1> SUFFICES ASSUME BodyInv, [Next]_vars PROVE BodyInv'
  OBVIOUS
<1>1. CASE UNCHANGED vars
  BY <1>1 DEF vars, BodyInv, TypeOK, Served, Frames, NoBodies, AwaitInv, IntactInv, Intact,
              Source
<1> QED
  BY <1>1, BodyMiddleware, BodyEnterLimit, BodyEnterParser, BodyCountIncoming, BodyCountBody,
     BodyParse, BodyReadBody DEF Next

(* The strengthened invariant holds in every state of the request.          *)
THEOREM BodyInductive == Spec => []BodyInv
  BY BodyInit, BodyNext, PTL DEF Spec

(* Every Request object, view and cache stays what it is declared to be.    *)
THEOREM TypeCorrect == Spec => []TypeOK
<1>1. BodyInv => TypeOK
  BY DEF BodyInv
<1> QED
  BY <1>1, BodyInductive, PTL

(* The body that server or middleware installed last is there to be read,   *)
(* whatever the layers counted, parsed and replaced.                        *)
THEOREM BodyPreserved == Spec => []BodyIsPreserved
<1>1. BodyInv => BodyIsPreserved
  <2> SUFFICES ASSUME BodyInv, verdict = "none", step # "done",
                      ~NoBody(requests[installed].method)
               PROVE  /\ ~Effective.used
                      /\ Effective.content = requests[installed].content
                      /\ Effective.size = requests[installed].size
    BY DEF BodyIsPreserved
  <2> DEFINE source == requests[Source(view)]
  <2>1. /\ source.method = requests[installed].method
        /\ source.content = requests[installed].content
        /\ source.size = requests[installed].size
        /\ view.pending = None => ~source.used
    BY DEF BodyInv, IntactInv, Intact
  <2>2. source \in Object
    BY BodyFacts, SourceOK
  <2>3. CASE view.pending = None
    BY <2>1, <2>3 DEF Effective, Source
  <2>4. CASE view.pending # None
    <3>1. Effective = Copy(source)
      BY <2>4 DEF Effective, Source
    <3> HIDE DEF source
    <3> QED
      BY <2>1, <2>2, <3>1, CopyOK
  <2> QED
    BY <2>3, <2>4
<1> QED
  BY <1>1, BodyInductive, PTL

-----------------------------------------------------------------------------
(* What is cached is true of the request in ctx.req.raw.                    *)

Known(v, rs) == CachesOK(v, rs) /\ CurrentOK(v, rs)

LEMMA HeaderInit == Init => HeaderInv
<1> SUFFICES ASSUME Init PROVE HeaderInv
  OBVIOUS
<1>1. PICK server \in Servers :
        /\ requests = <<Created(server.request, 1)>>
        /\ view = [raw |-> 1, pending |-> None, current |-> None, synced |-> {1},
                   method |-> server.request.method, path |-> server.request.path,
                   type |-> "unset", skip |-> "unset"]
  BY DEF Init
<1>2. requests[1].method = server.request.method /\ requests[1].path = server.request.path
  BY <1>1 DEF Created
<1>3. Current(view) = 1 /\ Source(view) = 1
  BY <1>1 DEF Current, Source, None
<1>4. CachesOK(view, requests) /\ CurrentOK(view, requests)
  BY <1>1, <1>2, <1>3 DEF CachesOK, CurrentOK, SameHeaders
<1> QED
  BY <1>4 DEF HeaderInv, CountInv, ReadInv, Init

(* A step after which no layer awaits anything.                             *)
LEMMA HeaderStep ==
    ASSUME Known(view', requests'), step' \notin {"count", "read"}
    PROVE  HeaderInv'
<1>1. CachesOK(view, requests)' /\ CurrentOK(view, requests)'
  BY DEF Known, CachesOK, CurrentOK, Current, Source, IsSynced
<1>2. CountInv' /\ ReadInv'
  BY DEF CountInv, ReadInv
<1> QED
  BY <1>1, <1>2 DEF HeaderInv

LEMMA HeaderMiddleware ==
    ASSUME ~RestoresReplaced, BodyInv, HeaderInv, Middleware
    PROVE  HeaderInv'
<1> USE BodyFacts
<1>1. Known(view, requests)
  BY DEF HeaderInv, Known
<1>2. CASE EnterHono \/ CallNext \/ \E value \in {"undefined", "custom"} : SetBody(value)
  <2>1. UNCHANGED <<view, requests>> /\ step' \notin {"count", "read"}
    BY <1>2 DEF EnterHono, CallNext, SetBody, Goto, NextLayer, InMiddleware
  <2> QED
    BY <1>1, <2>1, HeaderStep
<1>3. CASE EnterNest
  <2>1. view' = Synced(view, requests) /\ requests' = requests /\ step' = "user"
    BY <1>3 DEF EnterNest, Goto
  <2>2. Known(view', requests)
    BY <1>1, <2>1, SyncedOK DEF Known
  <2> QED
    BY <2>1, <2>2, HeaderStep
<1>4. CASE Look
  <2>1. requests' = WithCopy(view, requests) /\ view' = Materialized(view, requests')
          /\ step' = "user"
    BY <1>4 DEF Look, ReadRaw, InMiddleware
  <2>2. Known(view', requests')
    BY <1>1, <2>1, ReadRawOK DEF Known
  <2> QED
    BY <2>1, <2>2, HeaderStep
<1>5. CASE HandlerReads
  <2> DEFINE rs == WithCopy(view, requests)
             v == Materialized(view, rs)
  <2>1. requests' = Used(rs, v.raw) /\ view' = v /\ step' = "done"
    BY <1>5 DEF HandlerReads, Goto
  <2>2. /\ Grows(requests, rs) /\ rs # <<>> /\ ViewOK(v, rs) /\ v.raw \in 1..Len(rs)
        /\ Known(v, rs)
    BY <1>1, ReadRawOK DEF Known
  <2> HIDE DEF rs, v
  <2>3. rs \in Seq(Object)
    BY <2>2 DEF Grows
  <2>4. Grows(rs, requests')
    BY <2>1, <2>2, <2>3, UsedOK
  <2>5. Known(view', requests')
    BY <2>1, <2>2, <2>3, <2>4, GrowsOK DEF Known
  <2> QED
    BY <2>1, <2>5, HeaderStep
<1>6. ASSUME NEW request \in Replacements, Replace(request)
      PROVE  HeaderInv'
  <2> DEFINE n == Len(requests) + 1
             o == Created(request, n)
  <2>1. /\ requests' = Append(requests, o) /\ view' = Assigned(view, requests', Len(requests'))
        /\ step' = "user"
    BY <1>6 DEF Replace, InMiddleware
  <2>2. o \in Object
    BY ReplacementsAssumption, CreatedOK
  <2> HIDE DEF o
  <2>3. Grows(requests, requests') /\ Len(requests') = n
    BY <2>1, <2>2, AppendOK
  <2>4. requests' \in Seq(Object) /\ n \in 1..Len(requests') /\ requests' # <<>>
    BY <2>3 DEF Grows
  <2>5. ViewOK(view, requests') /\ Known(view, requests')
    BY <1>1, <2>3, GrowsOK DEF Known
  <2>6. n \notin view.synced /\ 1 \in view.synced
    BY <1>1 DEF ViewOK, Known, CurrentOK
  <2>7. view' = Assigned(view, requests', n)
    BY <2>1, <2>3
  <2> HIDE DEF n
  <2>8. Known(view', requests')
    BY <2>4, <2>5, <2>6, <2>7, AssignedOK DEF Known
  <2> QED
    BY <2>1, <2>8, HeaderStep
<1>7. ASSUME NEW id \in 1..Len(requests), Restore(id)
      PROVE  HeaderInv'
  <2>1. /\ view' = Assigned(view, requests, id) /\ requests' = requests /\ step' = "user"
        /\ id \in view.synced => id = Current(view)
    BY <1>7 DEF Restore, InMiddleware, SeenReplaced
  <2>2. 1 \in view.synced
    BY <1>1 DEF Known, CurrentOK
  <2>3. Known(view', requests')
    BY <1>1, <2>1, <2>2, AssignedOK DEF Known
  <2> QED
    BY <2>1, <2>3, HeaderStep
<1> QED
  BY <1>2, <1>3, <1>4, <1>5, <1>6, <1>7 DEF Middleware

(* After a layer has read ctx.req.raw.                                      *)
LEMMA HeaderReadsRaw ==
    ASSUME BodyInv, NEW v, ViewOK(v, requests), Known(v, requests),
           requests' = WithCopy(v, requests), view' = Materialized(v, requests')
    PROVE  Known(view', requests')
  BY BodyFacts, ReadRawOK DEF Known

LEMMA HeaderEnterLimit ==
    ASSUME BodyInv, HeaderInv, EnterLimit
    PROVE  HeaderInv' /\ view'.raw \in view'.synced
<1> USE BodyFacts
<1> DEFINE v == Synced(view, requests)
<1>1. ViewOK(v, requests) /\ Known(v, requests) /\ IsSynced(v)
  BY SyncedOK DEF HeaderInv, Known
<1>2. /\ layer.kind = "limit" /\ Frame /\ step' \in {"done", "parse", "count"}
      /\ requests' = WithCopy(v, requests) /\ view' = Materialized(v, requests')
  BY EnterLimitOK
<1> HIDE DEF v
<1>3. Known(view', requests') /\ view'.raw \in view'.synced
  BY <1>1, <1>2, HeaderReadsRaw, ReadRawOK
<1>4. CachesOK(view, requests)' /\ CurrentOK(view, requests)'
  BY <1>3 DEF Known, CachesOK, CurrentOK, Current, Source, IsSynced
<1>5. CountInv' /\ ReadInv'
  BY <1>2, <1>3 DEF CountInv, ReadInv, Frame, layer
<1> QED
  BY <1>3, <1>4, <1>5 DEF HeaderInv

LEMMA HeaderEnterParser ==
    ASSUME BodyInv, HeaderInv, EnterParser
    PROVE  HeaderInv'
<1> USE BodyFacts
<1>1. Known(view, requests) /\ ViewOK(view, requests)
  BY DEF HeaderInv, Known
<1>2. /\ layer.kind = "parser" /\ Frame /\ step' \in {"done", "parse", "count"}
      /\ \/ UNCHANGED <<requests, view>>
         \/ requests' = WithCopy(view, requests) /\ view' = Materialized(view, requests')
  BY EnterParserOK
<1>3. Known(view', requests')
  BY <1>1, <1>2, HeaderReadsRaw
<1>4. CachesOK(view, requests)' /\ CurrentOK(view, requests)'
  BY <1>3 DEF Known, CachesOK, CurrentOK, Current, Source, IsSynced
<1>5. CountInv' /\ ReadInv'
  BY <1>2 DEF CountInv, ReadInv, Frame, layer
<1> QED
  BY <1>4, <1>5 DEF HeaderInv

LEMMA UsedKnown ==
    ASSUME BodyInv, Known(view, requests), NEW id \in 1..Len(requests)
    PROVE  Known(view, Used(requests, id))
<1>1. Grows(requests, Used(requests, id))
  BY UsedBody
<1> QED
  BY <1>1, BodyFacts, GrowsOK DEF Known

LEMMA HeaderCount ==
    ASSUME BodyInv, HeaderInv, CountIncoming \/ CountBody
    PROVE  HeaderInv'
<1> USE BodyFacts
<1>1. Known(view, requests) /\ 1 \in 1..Len(requests)
  BY DEF HeaderInv, Known
<1>2. CASE CountIncoming
  <2>1. /\ requests' = requests \/ requests' = Used(requests, 1)
        /\ view' = view /\ step' \in {"parse", "done"}
    BY <1>2 DEF CountIncoming, Fail, Goto
  <2>2. Known(view', requests')
    BY <1>1, <2>1, UsedKnown
  <2> QED
    BY <2>1, <2>2, HeaderStep
<1>3. CASE CountBody
  <2>1. /\ step' \in {"parse", "done"} /\ view.raw \in 1..Len(requests)
        /\ \/ requests' = Used(requests, view.raw) /\ view' = view
           \/ CountedIs(requests', view')
    BY <1>3, CountBodyOK
  <2>2. Known(view', requests')
    BY <1>1, <2>1, UsedKnown DEF CountedIs, Known
  <2> QED
    BY <2>1, <2>2, HeaderStep
<1> QED
  BY <1>2, <1>3

LEMMA HeaderParse ==
    ASSUME BodyInv, HeaderInv, Parse
    PROVE  HeaderInv'
<1> USE BodyFacts
<1>1. Known(view, requests)
  BY DEF HeaderInv, Known
<1>2. CASE /\ view' \in {view, Seen, Typed, Asked} /\ step' = "enter" /\ requests' = requests
  <2>1. Known(view', requests')
    BY <1>1, <1>2, AskedOK DEF Known
  <2> QED
    BY <1>2, <2>1, HeaderStep
<1>3. CASE /\ Seen.method # "GET" /\ Typed.type \in layer.types /\ Asked.skip # "yes"
           /\ requests' = WithCopy(Asked, requests) /\ view' = Materialized(Asked, requests')
           /\ contentType' = Typed.type /\ step' = "read" /\ at' = at
  <2> DEFINE current == requests[Current(Asked)]
             raw == requests'[view'.raw]
  <2>1. /\ ViewOK(Asked, requests) /\ Known(Asked, requests) /\ IsSynced(Asked)
        /\ Seen.method = current.method /\ Typed.type = current.type
        /\ current.path \notin SkippedPaths
    BY <1>1, <1>3, AskedOK DEF Known
  <2>2. /\ Known(view', requests') /\ view'.raw \in view'.synced
        /\ SameHeaders(raw, requests[Source(Asked)])
    BY <1>3, <2>1, HeaderReadsRaw, ReadRawOK
  <2>3. SameHeaders(requests[Source(Asked)], current)
    BY <2>1 DEF Known, CurrentOK
  <2>4. raw.type = current.type /\ raw.path = current.path /\ raw.method = current.method
    BY <2>2, <2>3 DEF SameHeaders
  <2>5. layer' = layer
    BY <1>3, ParseOK DEF layer
  <2>6. ReadInv'
    BY <1>3, <2>1, <2>2, <2>4, <2>5 DEF ReadInv, MayBeParsed
  <2>7. CountInv'
    BY <1>3 DEF CountInv
  <2>8. CachesOK(view, requests)' /\ CurrentOK(view, requests)'
    BY <2>2 DEF Known, CachesOK, CurrentOK, Current, Source, IsSynced
  <2> QED
    BY <2>6, <2>7, <2>8 DEF HeaderInv
<1> QED
  BY <1>2, <1>3, ParseOK

LEMMA HeaderReadBody ==
    ASSUME BodyInv, HeaderInv, ReadBody
    PROVE  HeaderInv'
<1> USE BodyFacts
<1>1. /\ step = "read" /\ requests' = Used(requests, view.raw)
      /\ step' \in {"done", "enter"} /\ view' \in {view, Replaced(view)}
  BY ReadBodyOK
<1>2. view.pending = None /\ view.raw \in view.synced /\ Known(view, requests)
  BY <1>1 DEF BodyInv, AwaitInv, HeaderInv, ReadInv, Known
<1>3. view.raw \in 1..Len(requests)
  BY <1>2, SourceOK
<1>4. Grows(requests, requests') /\ ViewOK(view, requests') /\ Known(view, requests')
        /\ Len(requests') = Len(requests)
  BY <1>1, <1>2, <1>3, UsedBody, UsedKnown
<1>5. requests' \in Seq(Object) /\ requests' # <<>>
  BY <1>4 DEF Grows
<1>6. Known(Replaced(view), requests')
  BY <1>2, <1>4, <1>5, ReplacedOK DEF Known
<1> QED
  BY <1>1, <1>4, <1>6, HeaderStep

LEMMA HeaderNext ==
    ASSUME ~RestoresReplaced
    PROVE  BodyInv /\ HeaderInv /\ [Next]_vars => HeaderInv'
<1> SUFFICES ASSUME BodyInv, HeaderInv, [Next]_vars PROVE HeaderInv'
  OBVIOUS
<1>1. CASE UNCHANGED vars
  BY <1>1 DEF vars, HeaderInv, CachesOK, CurrentOK, Current, Source, IsSynced, CountInv,
              ReadInv, MayBeParsed, layer
<1> QED
  BY <1>1, HeaderMiddleware, HeaderEnterLimit, HeaderEnterParser, HeaderCount, HeaderParse,
     HeaderReadBody DEF Next

-----------------------------------------------------------------------------
(* The limits.                                                              *)

(* A body that need not be counted, and one whose length was announced by   *)
(* HTTP, is within a limit.                                                 *)
LEMMA NoBodyIsWithin ==
    ASSUME Served(requests)', NoBodies(requests'), Known(view', requests'),
           requests' \in Seq(Object), view'.raw \in 1..Len(requests'),
           view'.pending = None, view'.raw \in view'.synced,
           ~MayHaveBody(view', requests'[view'.raw]), transport' = transport,
           NEW limit \in Sizes
    PROVE  IsWithin(limit, requests'[view'.raw])
<1> DEFINE request == requests'[view'.raw]
<1>1. request \in Object
  OBVIOUS
<1>2. request.size \in Nat /\ request.declared \in Sizes /\ request.chunked \in BOOLEAN
  BY <1>1 DEF Object
<1>3. view'.method = request.method
  BY DEF Known, CachesOK, CurrentOK, SameHeaders, IsSynced, Source
<1>4. NoBody(request.method) => ~request.hasBody
  BY DEF NoBodies
<1>5. CASE view'.raw # 1 \/ transport = "direct"
  BY <1>5 DEF MayHaveBody, IsWithin
<1>6. CASE view'.raw = 1 /\ transport # "direct"
  <2>1. Frames(request)
    BY <1>6 DEF Served
  <2>2. NoBody(request.method) \/ (~request.chunked /\ ~(request.declared > 0))
    BY <1>3, <1>6 DEF MayHaveBody
  <2>3. CASE NoBody(request.method)
    BY <1>4, <2>3 DEF IsWithin
  <2>4. CASE ~request.chunked /\ ~(request.declared > 0)
    <3>1. request.size = 0
      BY <1>2, <2>1, <2>4 DEF Frames, Sizes, Unset
    <3> QED
      BY <3>1 DEF IsWithin, Exceeds, Sizes, Unset
  <2> QED
    BY <2>2, <2>3, <2>4
<1> QED
  BY <1>5, <1>6

LEMMA DeclaredIsWithin ==
    ASSUME Served(requests)', transport' = transport, TrustsFraming(view'), NEW limit,
           requests'[view'.raw].declared # Unset, ~requests'[view'.raw].chunked,
           ~Exceeds(limit, requests'[view'.raw].declared)
    PROVE  IsWithin(limit, requests'[view'.raw])
<1>1. view'.raw = 1 /\ Frames(requests'[1])
  BY DEF TrustsFraming, Served
<1>2. requests'[1].size = requests'[1].declared
  BY <1>1 DEF Frames
<1> QED
  BY <1>1, <1>2 DEF IsWithin

(* The next state's raw request, when nothing is pending.                   *)
LEMMA EffectiveRaw ==
    ASSUME view'.pending = None
    PROVE  Effective' = requests'[view'.raw]
  BY DEF Effective

LEMMA UnsetIsWithin ==
    ASSUME NEW request
    PROVE  IsWithin(Unset, request)
  BY DEF IsWithin, Exceeds

LEMMA LimitEnterLimit ==
    ASSUME BodyInv, HeaderInv, BodyInv', EnterLimit, step' = "parse"
    PROVE  WithinLimits(Effective')
<1> USE BodyFacts
<1> DEFINE raw == requests'[view'.raw]
           v == Synced(view, requests)
<1>1. /\ layer.kind = "limit" /\ Frame
      /\ requests' = WithCopy(v, requests) /\ view' = Materialized(v, requests')
      /\ \/ ~MayHaveBody(view', raw)
         \/ LimitOf(view') = Unset
         \/ /\ raw.declared # Unset /\ ~raw.chunked /\ TrustsFraming(view')
            /\ ~Exceeds(LimitOf(view'), raw.declared)
  BY EnterLimitOK
<1>2. HeaderInv' /\ view'.raw \in view'.synced
  BY HeaderEnterLimit
<1>3. Known(view', requests')
  BY <1>2 DEF HeaderInv, Known, CachesOK, CurrentOK, Current, Source, IsSynced
<1>4. /\ view'.pending = None /\ view'.raw \in 1..Len(requests')
  BY <1>1, SyncedOK, ReadRawOK
<1>5. Served(requests)' /\ NoBodies(requests') /\ requests' \in Seq(Object)
  BY DEF BodyInv, TypeOK, NoBodies
<1>6. view'.path = raw.path
  BY <1>2, <1>3, <1>4 DEF Known, CachesOK, CurrentOK, SameHeaders, IsSynced, Source
<1>7. raw \in Object
  BY <1>4, <1>5
<1>8. raw.path \in Paths
  BY <1>7 DEF Object
<1>9. LimitOf(view') = BodyLimit[raw.path] /\ BodyLimit[raw.path] \in Sizes
  BY <1>1, <1>6, <1>8, OptionsAssumption DEF LimitOf
<1> DEFINE limit == BodyLimit[raw.path]
<1> HIDE DEF limit
<1>10. LimitOf(view') = limit /\ limit \in Sizes
  BY <1>9 DEF limit
<1>11. IsWithin(limit, raw)
  <2>1. CASE ~MayHaveBody(view', raw)
    BY <1>1, <1>2, <1>3, <1>4, <1>5, <1>10, <2>1, NoBodyIsWithin DEF Frame
  <2>2. CASE LimitOf(view') = Unset
    BY <1>10, <2>2, UnsetIsWithin
  <2>3. CASE /\ raw.declared # Unset /\ ~raw.chunked /\ TrustsFraming(view')
             /\ ~Exceeds(LimitOf(view'), raw.declared)
    BY <1>1, <1>5, <1>10, <2>3, DeclaredIsWithin DEF Frame
  <2> QED
    BY <1>1, <2>1, <2>2, <2>3
<1>12. Effective' = raw /\ layer.limit = Unset
  BY <1>1, <1>4, EffectiveRaw
<1> QED
  BY <1>11, <1>12, UnsetIsWithin DEF WithinLimits, limit

LEMMA LimitEnterParser ==
    ASSUME BodyInv, BodyInv', EnterParser, step' = "parse"
    PROVE  WithinLimits(Effective')
<1> USE BodyFacts
<1> DEFINE raw == requests'[view'.raw]
<1>1. /\ layer.kind = "parser" /\ Frame
      /\ \/ layer.limit = Unset
         \/ raw.type \notin layer.types
         \/ /\ raw.declared # Unset /\ ~raw.chunked /\ TrustsFraming(view')
            /\ ~Exceeds(LimitOf(view'), raw.declared)
  BY EnterParserOK
<1>2. CASE layer.limit = Unset
  BY <1>1, <1>2, UnsetIsWithin DEF WithinLimits
<1>3. CASE layer.limit # Unset
  <2>1. requests' = WithCopy(view, requests) /\ view' = Materialized(view, requests')
    BY <1>3, EnterParserOK
  <2>2. view'.pending = None
    BY <2>1, ReadRawOK
  <2>3. Effective' = raw
    BY <2>2, EffectiveRaw
  <2>4. LimitOf(view') = layer.limit /\ Served(requests)'
    BY <1>1 DEF LimitOf, BodyInv
  <2>5. raw.type \in layer.types => IsWithin(layer.limit, raw)
    BY <1>1, <1>3, <2>4, DeclaredIsWithin DEF Frame
  <2> QED
    BY <1>1, <2>3, <2>5 DEF WithinLimits
<1> QED
  BY <1>2, <1>3

LEMMA LimitCount ==
    ASSUME BodyInv, HeaderInv, CountIncoming \/ CountBody, step' = "parse"
    PROVE  WithinLimits(Effective')
<1> USE BodyFacts
<1> DEFINE raw == requests[view.raw]
<1>1. /\ step = "count" /\ view.pending = None /\ layer.kind \in {"limit", "parser"}
      /\ layer.kind = "limit" => view.raw \in view.synced
  <2>1. step = "count"
    BY DEF CountIncoming, CountBody
  <2> QED
    BY <2>1 DEF BodyInv, AwaitInv, HeaderInv, CountInv
<1>2. view.raw \in 1..Len(requests)
  BY <1>1, SourceOK
<1>3. CASE CountIncoming
  <2>1. /\ ~raw.hasBody /\ view' = view
        /\ requests' = requests \/ requests' = Used(requests, 1)
    BY <1>3 DEF CountIncoming
  <2>2. 1 \in 1..Len(requests)
    OBVIOUS
  <2>3. Grows(requests, requests')
    BY <2>1, <2>2, UsedOK, GrowsReflexive
  <2>4. ~requests'[view.raw].hasBody
    BY <1>2, <2>1, <2>3 DEF Grows, Alike
  <2>5. Effective' = requests'[view.raw]
    BY <1>1, <2>1, EffectiveRaw
  <2> QED
    BY <2>4, <2>5 DEF WithinLimits, IsWithin
<1>4. CASE CountBody
  <2>1. ~Exceeds(LimitOf(view), raw.size) /\ CountedIs(requests', view') /\ Frame
    BY <1>4, CountBodyOK
  <2> DEFINE counted == requests'[view'.raw]
  <2>2. SameHeaders(counted, raw) /\ counted.size = raw.size /\ Effective' = counted
    BY <2>1, EffectiveRaw DEF CountedIs
  <2>3. layer.kind = "limit" => LimitOf(view) = BodyLimit[counted.path]
    <3>1. layer.kind = "limit" => view.path = raw.path
      BY <1>1 DEF HeaderInv, CachesOK, CurrentOK, SameHeaders, IsSynced, Source
    <3> QED
      BY <2>2, <3>1 DEF LimitOf, SameHeaders
  <2>4. layer.kind = "limit" => layer.limit = Unset
    OBVIOUS
  <2>5. layer.kind # "limit" => LimitOf(view) = layer.limit
    BY DEF LimitOf
  <2>6. IsWithin(LimitOf(view), counted)
    BY <2>1, <2>2 DEF IsWithin
  <2> QED
    BY <2>2, <2>3, <2>4, <2>5, <2>6, UnsetIsWithin DEF WithinLimits
<1> QED
  BY <1>3, <1>4

LEMMA LimitStep ==
    ASSUME BodyInv, HeaderInv, [Next]_vars
    PROVE  [LeavesLimit => WithinLimits(Effective')]_vars
<1> SUFFICES ASSUME Next, LeavesLimit
             PROVE  WithinLimits(Effective')
  OBVIOUS
<1>1. BodyInv'
  BY BodyNext
<1>2. step \in {"enter", "count"} /\ step' = "parse"
  BY DEF LeavesLimit
<1>3. EnterLimit \/ EnterParser \/ CountIncoming \/ CountBody
  BY <1>2, ParseOK, ReadBodyOK DEF Next, Middleware, EnterHono, EnterNest, Look, CallNext,
     HandlerReads, Replace, Restore, SetBody, Goto, NextLayer, InMiddleware
<1> QED
  BY <1>1, <1>2, <1>3, LimitEnterLimit, LimitEnterParser, LimitCount

-----------------------------------------------------------------------------
(* Parsers and metadata.                                                    *)

LEMMA ParsedStep ==
    ASSUME BodyInv, HeaderInv, [Next]_vars
    PROVE  [parsed' # parsed =>
              MayBeParsed(requests[parsed']) /\ body' = requests[parsed'].type]_vars
<1> SUFFICES ASSUME Next, parsed' # parsed
             PROVE  MayBeParsed(requests[parsed']) /\ body' = requests[parsed'].type
  OBVIOUS
<1>1. ReadBody
  BY EnterLimitOK, EnterParserOK, CountBodyOK, ParseOK
     DEF Next, Middleware, EnterHono, EnterNest, Look, CallNext, HandlerReads, Replace,
         Restore, SetBody, CountIncoming
<1>2. step = "read" /\ parsed' = view.raw /\ body' = contentType
  BY <1>1, ReadBodyOK
<1> QED
  BY <1>2 DEF HeaderInv, ReadInv

LEMMA MetadataStep ==
    ASSUME BodyInv, HeaderInv, [Next]_vars
    PROVE  [EnterNest => Describes(view', requests', Effective')]_vars
<1> SUFFICES ASSUME EnterNest
             PROVE  Describes(view', requests', Effective')
  OBVIOUS
<1> USE BodyFacts
<1>1. view' = Synced(view, requests) /\ requests' = requests
  BY DEF EnterNest
<1>2. ViewOK(view', requests) /\ Known(view', requests) /\ IsSynced(view')
  BY <1>1, SyncedOK DEF HeaderInv, Known
<1> DEFINE source == requests[Source(view')]
           current == requests[Current(view')]
<1>3. source \in Object /\ SameHeaders(source, current)
  BY <1>2, SourceOK DEF Known, CurrentOK
<1>4. SameHeaders(Effective', source)
  <2>1. CASE view'.pending = None
    BY <1>1, <2>1 DEF Effective, Source, SameHeaders
  <2>2. CASE view'.pending # None
    <3>1. Effective' = Copy(source)
      BY <1>1, <2>2 DEF Effective, Source
    <3> HIDE DEF source
    <3> QED
      BY <1>3, <3>1, CopyOK
  <2> QED
    BY <2>1, <2>2
<1>5. \/ requests'[HeadersSource(view')] = source
      \/ requests'[HeadersSource(view')] = current
  BY <1>1 DEF HeadersSource, Source
<1>6. CachesOK(view', requests)
  BY <1>2 DEF Known
<1> QED
  BY <1>3, <1>4, <1>5, <1>6 DEF Describes, SameHeaders, CachesOK, SkipOf

(* The second part of the invariant, where middleware does not put back a   *)
(* request that the adapter has seen replaced.                              *)
THEOREM HeaderInductive ==
    ASSUME ~RestoresReplaced
    PROVE  Spec => []HeaderInv
<1>1. BodyInv /\ HeaderInv /\ [Next]_vars => HeaderInv'
  BY HeaderNext
<1> QED
  BY <1>1, HeaderInit, BodyInductive, PTL DEF Spec

(* No body passes a limit that it exceeds, whatever its headers say, where  *)
(* middleware puts back no request that the adapter has seen replaced.      *)
THEOREM LimitsHold ==
    ASSUME ~RestoresReplaced
    PROVE  Spec => LimitHolds
<1>1. BodyInv /\ HeaderInv /\ [Next]_vars => [LeavesLimit => WithinLimits(Effective')]_vars
  BY LimitStep
<1> QED
  BY <1>1, BodyInductive, HeaderInductive, PTL DEF Spec, LimitHolds

(* Under the same condition a body is parsed by a parser of its type, never *)
(* for GET or for a path that skips parsing.                                *)
THEOREM ParsersMatch ==
    ASSUME ~RestoresReplaced
    PROVE  Spec => ParsedAsDeclared
<1>1. BodyInv /\ HeaderInv /\ [Next]_vars =>
        [parsed' # parsed =>
           MayBeParsed(requests[parsed']) /\ body' = requests[parsed'].type]_vars
  BY ParsedStep
<1> QED
  BY <1>1, BodyInductive, HeaderInductive, PTL DEF Spec, ParsedAsDeclared

(* Under the same condition, without which the code breaks it (README),     *)
(* Nest's middleware and handlers are told of the request in ctx.req.raw.   *)
THEOREM MetadataStaysCurrent ==
    ASSUME ~RestoresReplaced
    PROVE  Spec => MetadataIsCurrent
<1>1. BodyInv /\ HeaderInv /\ [Next]_vars =>
        [EnterNest => Describes(view', requests', Effective')]_vars
  BY MetadataStep
<1> QED
  BY <1>1, BodyInductive, HeaderInductive, PTL DEF Spec, MetadataIsCurrent
=============================================================================
