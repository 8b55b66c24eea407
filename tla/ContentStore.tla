---------------------------- MODULE ContentStore ----------------------------
(***************************************************************************)
(* The posts directory, its cache and the size tracker.  A post lives in   *)
(* posts/<name>/index.md beside its assets; renaming a title moves the     *)
(* directory and leaves a symlink under the old name.  Handlers hold the   *)
(* content lock, so each is one action; what can go wrong inside it is one *)
(* I/O or database error, or a crash, between any two of its writes.  The  *)
(* id of a post is the model's own: it tells which post a file, a row or   *)
(* an old address belongs to.                                              *)
(***************************************************************************)
EXTENDS Integers, FiniteSets, FiniteSetsExt

CONSTANTS
  Ids,        \* the posts ever created
  Titles,     \* titles with distinct slugs
  MaxSuffix,  \* directory names tried for one slug
  AssetNames, \* assets, of size 1 each
  Quota,      \* the storage limit
  MaxFaults,  \* a bound: requests that fail after their first write
  Crashes     \* whether the server may die inside a request

ASSUME ContentAssumption ==
  /\ Ids \subseteq Nat \ {0} /\ IsFiniteSet(Ids)
  /\ IsFiniteSet(Titles) /\ IsFiniteSet(AssetNames)
  /\ MaxSuffix \in Nat \ {0} /\ Quota \in Nat /\ MaxFaults \in Nat
  /\ Crashes \in BOOLEAN

VARIABLES
  disk,      \* the posts directory: [dirs, link, post, assets]
  cache,     \* the rows of posts_cache, by directory name
  used,      \* the size tracker
  up,        \* the server is running
  born,      \* the ids used so far
  loose,     \* the tracker may be off: a request failed half-way
  faults,    \* such requests so far
  adrift,    \* the posts such a request was about, until the next rebuild
  addresses  \* the names under which each post was public

vars == <<disk, cache, used, up, born, loose, faults, adrift, addresses>>

\* The name <<t, 1>> is the slug of t, <<t, i>> the slug with the suffix -i
Names == Titles \X (1 .. MaxSuffix)
NoName == <<"", 0>>

Posts == [id : Ids, title : Titles, draft : BOOLEAN]
NoPost == [id |-> 0, title |-> "", draft |-> TRUE]
Torn == [NoPost EXCEPT !.id = -1]       \* a file no parser accepts

\* The symlinks from n lead to w in the end: a set that holds n, and w not, has
\* a symlink that leads out of it
EndsAt(d, n, w) ==
  /\ d.link[w] = NoName
  /\ \A S \in SUBSET (Names \ {w}) :
       n \in S => \E k \in S : d.link[k] \notin S \cup {NoName}

\* The path of n with every symlink followed, whether or not it exists
Target(d, n) ==
  IF d.link[n] = NoName THEN n ELSE CHOOSE w \in Names : EndsAt(d, n, w)

Exists(d, n) == Target(d, n) \in d.dirs

\* generate_post_path: the first name for t that is free or the post's own
FreeNames(d, t, current) ==
  LET Free(i) == <<t, i>> = current \/ ~ Exists(d, <<t, i>>)
  IN  {<<t, i>> : i \in {k \in 1 .. MaxSuffix : Free(k) /\ \A j \in 1 .. k - 1 : ~ Free(j)}}

\* A draft's front matter is longer by one line
PostBytes(p) == IF p.id <= 0 THEN 0 ELSE IF p.draft THEN 2 ELSE 1
DirBytes(d, n) == PostBytes(d.post[n]) + Cardinality(d.assets[n])

\* The sum of all directories, as the number of units in them
PostUnits(d, S) == {u \in S \X (1 .. 2) : u[2] <= PostBytes(d.post[u[1]])}
AssetUnits(d, S) == {u \in S \X AssetNames : u[2] \in d.assets[u[1]]}
DiskBytes(d) == Cardinality(PostUnits(d, d.dirs)) + Cardinality(AssetUnits(d, d.dirs))

\* rebuild_cache: a row for each directory with a readable post; symlinks are
\* not followed
Rebuilt(d) ==
  [n \in Names |-> IF n \in d.dirs /\ d.post[n] # Torn THEN d.post[n] ELSE NoPost]

Init ==
  /\ disk = [dirs |-> {}, link |-> [n \in Names |-> NoName],
             post |-> [n \in Names |-> NoPost], assets |-> [n \in Names |-> {}]]
  /\ cache = [n \in Names |-> NoPost]
  /\ used = 0 /\ up = TRUE /\ born = {}
  /\ loose = FALSE /\ faults = 0 /\ adrift = {}
  /\ addresses = [i \in Ids |-> {}]

-----------------------------------------------------------------------------
(* States a request may leave behind: the disk, the cache and the tracker   *)

Now == [disk |-> disk, cache |-> cache, used |-> used]

\* An error before the first write changes nothing and needs no outcome.
\* done: success; kept: an error, with a tracker that follows the disk;
\* fails: an error after which it may not; dies: the server is gone
Outcomes(done, kept, fails, dies) ==
  [done |-> done, kept |-> kept, fails |-> fails, dies |-> dies]

\* write_post follows symlinks and creates the directory it needs
PutPost(s, n, p) ==
  LET w == Target(s.disk, n)
  IN  [s EXCEPT !.disk.dirs = @ \cup {w}, !.disk.post[w] = p]
PutRow(s, n, p) == [s EXCEPT !.cache[n] = p]
PutAssets(s, n, A) ==
  LET w == Target(s.disk, n)
  IN  [s EXCEPT !.disk.dirs = @ \cup {w}, !.disk.assets[w] = A]

Count(s, delta) == [s EXCEPT !.used = IF @ + delta < 0 THEN 0 ELSE @ + delta]
Recount(s) == [s EXCEPT !.used = DiskBytes(s.disk)]

\* require_quota looks at growth only
Fits(delta) == delta <= 0 \/ used + delta <= Quota

\* create_post: the row is flushed, the file written, the row committed.  A
\* name whose row exists without a file is refused
Created(n, p) ==
  LET written == PutPost(Now, n, p)
      saved == PutRow(written, n, p)
  IN  IF cache[n] # NoPost THEN Outcomes({}, {}, {}, {})
      ELSE Outcomes({Count(saved, PostBytes(p))}, {},
                    {PutPost(Now, n, NoPost), PutPost(Now, n, Torn), written},
                    {written, saved})

\* upload_post: the assets first; an error removes those written and an empty
\* directory, but not a half-written file.  A symlink that leads nowhere
\* stops the mkdir
Uploaded(n, p, A) ==
  LET withAssets == PutAssets(Now, n, A)
      written == PutPost(withAssets, n, p)
      saved == PutRow(written, n, p)
      half == {PutAssets(Now, n, {a}) : a \in A}
  IN  IF disk.link[n] # NoName \/ cache[n] # NoPost
        THEN Outcomes({}, {}, {}, {})
      ELSE Outcomes({Count(saved, PostBytes(p) + Cardinality(A))}, {},
                    {PutPost(Now, n, Torn), written} \cup half,
                    {withAssets, written, saved})

\* shutil.move of a directory or of a symlink; a directory cannot take the
\* place of a symlink that leads nowhere
CanMove(d, n, m) == n \notin d.dirs \/ d.link[m] = NoName
Moved(s, n, m) ==
  IF n \in s.disk.dirs
    THEN [s EXCEPT !.disk.dirs = (@ \ {n}) \cup {m},
                   !.disk.post[m] = s.disk.post[n], !.disk.post[n] = NoPost,
                   !.disk.assets[m] = s.disk.assets[n], !.disk.assets[n] = {}]
    ELSE [s EXCEPT !.disk.link[m] = s.disk.link[n], !.disk.link[n] = NoName]

\* Mutant: the symlink is made beside the new directory
LinkedAside(s, n, m) == [s EXCEPT !.disk.link[m] = n]

\* os.symlink
Linked(s, n, m) == [s EXCEPT !.disk.link[n] = m]

\* Mutant: a failed commit leaves the tracker alone
EditedUncounted(n, r) ==
  LET delta == PostBytes(r) - PostBytes(disk.post[Target(disk, n)])
      written == PutPost(Now, n, r)
  IN  Outcomes({Count(PutRow(written, n, r), delta)}, {written}, {}, {})

\* update_post under an unchanged name: the file, then the row
Edited(n, r) ==
  LET delta == PostBytes(r) - PostBytes(disk.post[Target(disk, n)])
      written == PutPost(Now, n, r)
  IN  Outcomes({Count(PutRow(written, n, r), delta)}, {Count(written, delta)},
               {PutPost(Now, n, Torn)}, {written, PutRow(written, n, r)})

\* Mutant: the cache row stays under the old name
RenamedOldRow(n, m, r, linked) ==
  LET delta == PostBytes(r) - PostBytes(disk.post[Target(disk, n)])
      moved == Moved(PutPost(Now, n, r), n, m)
      done == IF linked THEN Linked(moved, n, m) ELSE moved
  IN  Outcomes({Count(PutRow(done, n, r), delta)}, {}, {}, {})

\* update_post with a new name: the file under the old name, the move, the
\* symlink (which may fail), the row.  A failed commit takes the move back, an
\* error while the row's new path is flushed does not
Renamed(n, m, r, linked) ==
  LET delta == PostBytes(r) - PostBytes(disk.post[Target(disk, n)])
      written == PutPost(Now, n, r)
      moved == Moved(written, n, m)
      done == IF linked THEN Linked(moved, n, m) ELSE moved
      saved == PutRow(PutRow(done, n, NoPost), m, r)
      broken == {PutPost(Now, n, Torn), written}
  IN  IF ~ CanMove(written.disk, n, m) THEN Outcomes({}, {}, broken, {written})
      ELSE IF ~ linked THEN Outcomes({Count(saved, delta)}, {}, {}, {})
      ELSE IF cache[m] # NoPost THEN Outcomes({}, {}, broken \cup {done}, {})
      ELSE Outcomes({Count(saved, delta)}, {Count(written, delta)},
                    broken \cup {done}, {written, moved, done, saved})

\* delete_post removes the symlinks that still lead to the directory, in the
\* order the directory lists them: one whose way leads over a symlink removed
\* before is left behind
LinksTo(d, n) == {k \in Names \ {n} : Target(d, k) = n}
LinkSweeps(d, n) ==
  {R \in SUBSET LinksTo(d, n) :
     \A k \in LinksTo(d, n) \ R : Target([d EXCEPT !.link = [l \in Names |->
                                       IF l \in R THEN NoName ELSE @[l]]], k) # n}
Swept(s, R) == [s EXCEPT !.disk.link = [k \in Names |-> IF k \in R THEN NoName ELSE @[k]]]
WithoutDir(s, n) ==
  [s EXCEPT !.disk.dirs = @ \ {n}, !.disk.post[n] = NoPost, !.disk.assets[n] = {}]

\* The size delete_post_endpoint measures before it deletes
Freed(n, all) ==
  LET w == Target(disk, n)
  IN  IF all /\ w \in disk.dirs THEN DirBytes(disk, w) ELSE PostBytes(disk.post[w])

\* Deleting the post file alone; the row is gone before
FileDeleted(s, n) ==
  LET gone == PutPost(s, n, NoPost)
  IN  Outcomes({Count(gone, - Freed(n, FALSE))}, {Recount(s)}, {}, {s, gone})

\* Deleting the directory: an error may leave any of its files
DirDeleted(s, n) ==
  LET swept == {Swept(s, R) : R \in LinkSweeps(disk, n)}
  IN  Outcomes({Count(WithoutDir(t, n), - Freed(n, TRUE)) : t \in swept},
               {Recount(t) : t \in swept \cup {PutPost(t, n, NoPost) : t \in swept}},
               {}, {s} \cup swept \cup {WithoutDir(t, n) : t \in swept})

\* A post reached over a symlink: only the symlink goes
LinkDeleted(s, n) ==
  LET gone == Swept(s, {n})
  IN  Outcomes({Count(gone, - Freed(n, TRUE))}, {Recount(s)}, {}, {s, gone})

\* delete_post: nothing is done when there is no file
Deleted(n, all) ==
  LET s == PutRow(Now, n, NoPost)
  IN  IF disk.post[Target(disk, n)] = NoPost
        THEN Outcomes({Count(s, - Freed(n, all))}, {}, {}, {s})
      ELSE IF ~ all THEN FileDeleted(s, n)
      ELSE IF disk.link[n] # NoName THEN LinkDeleted(s, n)
      ELSE DirDeleted(s, n)

-----------------------------------------------------------------------------
Becomes(s) == disk' = s.disk /\ cache' = s.cache /\ used' = s.used

\* The names under which a post is public now
PublicNames(c, i) == {n \in Names : c[n].id = i /\ ~ c[n].draft}

\* A request about the post i comes to one of its outcomes
Succeeds(o) ==
  /\ \E s \in o.done : Becomes(s)
  /\ UNCHANGED <<up, loose, faults, adrift>>

Fails(i, o) ==
  /\ faults < MaxFaults /\ faults' = faults + 1
  /\ adrift' = adrift \cup {i}
  /\ \/ \E s \in o.kept : Becomes(s) /\ UNCHANGED <<up, loose>>
     \/ \E s \in o.fails : Becomes(s) /\ loose' = TRUE /\ UNCHANGED up
     \/ \E s \in o.dies : Crashes /\ Becomes(s) /\ up' = FALSE /\ UNCHANGED loose

Request(i, o) == Succeeds(o) \/ Fails(i, o)

Publish(known) == addresses' = [i \in Ids |-> known[i] \cup PublicNames(cache', i)]

\* Ids are given out in their order
NextId(i) == up /\ i = Min(Ids \ born) /\ born' = born \cup {i}

CreatePost(i) ==
  /\ i \notin born /\ NextId(i)
  /\ \E t \in Titles, draft \in BOOLEAN :
       LET p == [id |-> i, title |-> t, draft |-> draft]
       IN  /\ Fits(PostBytes(p))
           /\ \E n \in FreeNames(disk, t, NoName) : Request(i, Created(n, p))
  /\ Publish(addresses)

UploadPost(i) ==
  /\ i \notin born /\ NextId(i)
  /\ \E t \in Titles, draft \in BOOLEAN, A \in SUBSET AssetNames :
       LET p == [id |-> i, title |-> t, draft |-> draft]
       IN  /\ Fits(PostBytes(p) + Cardinality(A))
           /\ \E n \in FreeNames(disk, t, NoName) : Request(i, Uploaded(n, p, A))
  /\ Publish(addresses)

\* The handler looks for the row, not for the file.  When the old name cannot
\* be kept as a symlink the author is warned and the old addresses end
UpdatePost(n) ==
  /\ up /\ cache[n] # NoPost
  /\ \E t \in Titles, draft \in BOOLEAN, linked \in BOOLEAN :
       LET r == [cache[n] EXCEPT !.title = t, !.draft = draft]
       IN  /\ Fits(PostBytes(r) - PostBytes(disk.post[Target(disk, n)]))
           /\ \E m \in IF t = cache[n].title THEN {n} ELSE FreeNames(disk, t, n) :
                /\ linked \/ m # n
                /\ Request(r.id, IF m = n THEN Edited(n, r) ELSE Renamed(n, m, r, linked))
           /\ Publish(IF linked THEN addresses ELSE [addresses EXCEPT ![r.id] = {}])
  /\ UNCHANGED born

\* Drafts go with their assets
DeletePost(n) ==
  /\ up /\ cache[n] # NoPost
  /\ \E deleteAssets \in BOOLEAN :
       LET all == deleteAssets \/ cache[n].draft
           hollow == disk.post[Target(disk, n)] = NoPost \/ disk.link[n] # NoName
       IN  IF hollow
             THEN /\ \E s \in Deleted(n, all).done \cup Deleted(n, all).kept : Becomes(s)
                  /\ adrift' = adrift \cup {cache[n].id} /\ loose' = TRUE
                  /\ UNCHANGED <<up, faults>>
             ELSE Request(cache[n].id, Deleted(n, all))
  /\ addresses' = [addresses EXCEPT ![cache[n].id] = {}]
  /\ UNCHANGED born

\* The assets of the post with the row n become one of the given sets
AssetRequest(n, done, partial) ==
  LET w == Target(disk, n)
      With(A) == Count(PutAssets(Now, n, A), Cardinality(A) - Cardinality(disk.assets[w]))
  IN  /\ up /\ cache[n] # NoPost
      /\ Request(cache[n].id,
                 Outcomes(IF w \in disk.dirs THEN {With(A) : A \in done} ELSE {},
                          IF w \in disk.dirs THEN {With(A) : A \in partial} ELSE {},
                          {}, IF w \in disk.dirs THEN {With(A) : A \in done \cup partial} ELSE {}))
      /\ UNCHANGED <<born, addresses>>

\* upload_assets stops at the first file that cannot be written
UploadAssets(n) ==
  \E A \in (SUBSET AssetNames) \ {{}} :
    LET old == disk.assets[Target(disk, n)]
    IN  /\ Fits(Cardinality(A \ old))
        /\ AssetRequest(n, {old \cup A}, {old \cup B : B \in (SUBSET A) \ {{}, A}})

DeleteAsset(n, x) ==
  LET old == disk.assets[Target(disk, n)]
  IN  x \in old /\ AssetRequest(n, {old \ {x}}, {})

RenameAsset(n, x, y) ==
  LET old == disk.assets[Target(disk, n)]
  IN  x \in old /\ y \notin old /\ AssetRequest(n, {(old \ {x}) \cup {y}}, {})

\* Startup rebuilds the cache and measures the disk.  Posts that were adrift
\* start over with the address they have now
Restart ==
  /\ up' = TRUE
  /\ cache' = Rebuilt(disk)
  /\ used' = DiskBytes(disk)
  /\ loose' = FALSE /\ adrift' = {}
  /\ Publish([i \in Ids |-> IF i \in adrift THEN {} ELSE addresses[i]])
  /\ UNCHANGED <<disk, born, faults>>

Next ==
  \/ \E i \in Ids : CreatePost(i) \/ UploadPost(i)
  \/ \E n \in Names : UpdatePost(n) \/ DeletePost(n) \/ UploadAssets(n)
  \/ \E n \in Names, x \in AssetNames :
       DeleteAsset(n, x) \/ \E y \in AssetNames : RenameAsset(n, x, y)
  \/ Restart

Spec == Init /\ [][Next]_vars
-----------------------------------------------------------------------------
\* The types of the variables
Disks == [dirs : SUBSET Names,
          link : [Names -> Names \cup {NoName}],
          post : [Names -> Posts \cup {NoPost, Torn}],
          assets : [Names -> SUBSET AssetNames]]

TypeOK ==
  /\ disk \in Disks
  /\ cache \in [Names -> Posts \cup {NoPost}]
  /\ used \in Nat /\ up \in BOOLEAN /\ loose \in BOOLEAN /\ faults \in 0 .. MaxFaults
  /\ born \subseteq Ids /\ adrift \subseteq Ids
  /\ addresses \in [Ids -> SUBSET Names]

\* A running server's rows and the files agree both ways, unless a request
\* about the post failed since the last rebuild: what a row says is what its
\* path reads, over whatever symlinks, and each readable file has its row
CacheMatchesDisk ==
  up =>
    /\ \A n \in Names : cache[n] # NoPost /\ cache[n].id \notin adrift
         => disk.post[Target(disk, n)] = cache[n]
    /\ \A n \in disk.dirs : disk.post[n].id \in Ids \ adrift
         => \E m \in Names : Target(disk, m) = n /\ cache[m] = disk.post[n]

\* The tracker equals the disk unless a request failed after it had written
\* and before it could count: a failed commit of an edit, a failed deletion
\* and a half-done asset upload are all counted
UsageIsExact == up /\ ~ loose => used = DiskBytes(disk)

\* A deleted directory takes every symlink that led to it with it
DeletedDirTakesLinks ==
  [][\A n \in disk.dirs \ disk'.dirs :
       (\A m \in disk'.dirs : disk'.post[m].id # disk.post[n].id)
         => \A k \in LinksTo(disk, n) : disk'.link[k] = NoName]_vars
=============================================================================
