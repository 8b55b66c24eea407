------------------------------ MODULE SiteAdmin ------------------------------
(***************************************************************************)
(* The site configuration, its pages and its images (the favicon stands    *)
(* for both images, which share their code).  Handlers hold the content    *)
(* lock, so each is one action; what can go wrong inside it is one I/O or  *)
(* database error, or a crash, between any two of its writes.  A file's    *)
(* content is told by its size.                                            *)
(***************************************************************************)
EXTENDS Integers, FiniteSets

CONSTANTS
  Pages,        \* page ids
  BuiltinPages, \* the ids without a file: timeline and labels
  Contents,     \* what a page or image may hold: its size
  Titles,       \* titles, each told by its size in index.toml
  Extensions,   \* image file types
  Quota,        \* the storage limit
  Crashes       \* whether the server may die inside a request

ASSUME SiteAssumption ==
  /\ IsFiniteSet(Pages) /\ BuiltinPages \subseteq Pages
  /\ IsFiniteSet(Extensions) /\ "none" \notin Extensions
  /\ Contents \subseteq Nat /\ Titles \subseteq Nat /\ Titles # {}
  /\ Quota \in Nat /\ Crashes \in BOOLEAN

VARIABLES
  config,   \* index.toml and its copy in memory: [title, pages, image]
  files,    \* the page files
  images,   \* the files assets/favicon<ext>
  cache,    \* the rendered pages in the database
  used,     \* the content size tracker
  up,       \* the server is running
  listed,   \* the pages as an admin tab saw them last
  loose,    \* the tracker may be off until it measures the disk again: a
            \* request failed, or an upload overwrote a file left behind
  revived   \* pages put back by an outdated order

site == <<config, files, images, cache>>
vars == <<site, used, up, listed, loose, revived>>

\* Values that are no sizes
Missing == -1
Torn == -2      \* a write that stopped half-way
NoRow == -3
NoImage == "none"

Bytes(c) == IF c < 0 THEN 0 ELSE c
FilePages == Pages \ BuiltinPages

\* A page list: the ids it holds with their titles
PageLists == UNION {[S -> Titles] : S \in SUBSET Pages}
Configs == [title : Titles, pages : PageLists, image : Extensions \cup {NoImage}]

With(list, p, t) == [q \in (DOMAIN list) \cup {p} |-> IF q = p THEN t ELSE list[q]]
Without(list, p) == [q \in (DOMAIN list) \ {p} |-> list[q]]

\* The sum of a table of sizes, as the number of units in it
Units(size) == UNION {{x} \X (1 .. size[x]) : x \in DOMAIN size}
Total(size) == Cardinality(Units(size))

\* The size of the serialized index.toml
IndexBytes(cfg) ==
  cfg.title + Total([p \in DOMAIN cfg.pages |-> 1 + cfg.pages[p]])
            + (IF cfg.image = NoImage THEN 0 ELSE 1)

PageBytes(fs) == Total([p \in Pages |-> Bytes(fs[p])])
AssetBytes(ims) == Total([e \in Extensions |-> Bytes(ims[e])])

\* What the tracker measures by walking the content directory
DiskBytes(cfg, fs, ims) ==
  IndexBytes(cfg) + PageBytes(fs) + AssetBytes(ims)

\* Mutant: only pages with text are rendered again
RebuiltNonEmpty(cfg, fs) ==
  [p \in Pages |-> IF p \in DOMAIN cfg.pages /\ p \in FilePages /\ Bytes(fs[p]) > 0
                     THEN fs[p] ELSE NoRow]

\* rebuild_cache for pages: a file-backed page of the list whose file is there
Rebuilt(cfg, fs) ==
  [p \in Pages |-> IF p \in DOMAIN cfg.pages /\ p \in FilePages /\ fs[p] # Missing
                     THEN fs[p] ELSE NoRow]

Init ==
  /\ config = [title |-> CHOOSE t \in Titles : TRUE, image |-> NoImage,
               pages |-> [p \in BuiltinPages |-> CHOOSE t \in Titles : TRUE]]
  /\ files = [p \in Pages |-> Missing]
  /\ images = [e \in Extensions |-> Missing]
  /\ cache = [p \in Pages |-> NoRow]
  /\ used = DiskBytes(config, files, images)
  /\ up = TRUE
  /\ listed = config.pages
  /\ loose = FALSE
  /\ revived = {}

-----------------------------------------------------------------------------
(* What the services do: the states a request may leave behind when it     *)
(* succeeds, fails, or dies with the server, as records of the four parts  *)

Now == [config |-> config, files |-> files, images |-> images, cache |-> cache]

Outcomes(done, fails, dies) == [done |-> done, fails |-> fails, dies |-> dies]

SetPages(s, list) == [s EXCEPT !.config.pages = list]
SetFile(s, p, c) == [s EXCEPT !.files[p] = c]
SetRow(s, p, c) == [s EXCEPT !.cache[p] = c]

\* A write that fails leaves the old bytes or half of the new ones
Broken(s, p) == {s, SetFile(s, p, Torn)}

\* create_page: the page file, then index.toml, then the rendered row; an
\* error in the second or third removes the file again
Created(p, t, c) ==
  LET s1 == SetFile(Now, p, c)
      s2 == SetPages(s1, With(config.pages, p, t))
  IN  Outcomes({SetRow(s2, p, c)}, Broken(Now, p) \cup {SetFile(Now, p, Missing)}, {s1, s2})

\* update_page with a title only: index.toml, then the row's title, which no
\* reader uses
Renamed(p, t) ==
  LET s == SetPages(Now, With(config.pages, p, t))
  IN  Outcomes({s}, {Now}, {s})

\* update_page with a text: index.toml, the file, the row.  A failed file
\* write takes the title back, a failed row also the text
Edited(p, t, c) ==
  LET s1 == SetPages(Now, With(config.pages, p, t))
      s2 == SetFile(s1, p, c)
  IN  Outcomes({SetRow(s2, p, c)}, Broken(Now, p), {s1, s2})

\* delete_page: index.toml first; a file or a row that cannot be deleted is
\* left behind
Deleted(p, deleteFile) ==
  LET s1 == SetPages(Now, Without(config.pages, p))
      s2 == IF deleteFile THEN SetFile(s1, p, Missing) ELSE s1
      s3 == IF deleteFile THEN SetRow(s2, p, NoRow) ELSE s2
  IN  Outcomes({s3, s2, SetRow(s1, p, s3.cache[p])}, {Now}, {s1, s2})

SetImage(s, e) == [s EXCEPT !.config.image = e]
SetBytes(s, e, c) == [s EXCEPT !.images[e] = c]

\* _set_site_asset: the file, then index.toml; an error in either removes the
\* file, also when it took the place of the current image.  The file of the
\* old type goes last
Uploaded(e, c) ==
  LET s1 == SetBytes(Now, e, c)
      s2 == SetImage(s1, e)
      s3 == IF config.image \in {NoImage, e} THEN s2
            ELSE SetBytes(s2, config.image, Missing)
  IN  Outcomes({s3, s2}, {SetBytes(Now, e, Missing)}, {s1, s2})

\* _remove_site_asset: index.toml first, then the file
Removed ==
  LET s1 == SetImage(Now, NoImage)
  IN  Outcomes({s1} \cup {SetBytes(s1, e, Missing) : e \in {config.image} \cap Extensions},
               {Now}, {s1})

-----------------------------------------------------------------------------
(* What the endpoints do around them *)

Becomes(s) ==
  /\ config' = s.config /\ files' = s.files
  /\ images' = s.images /\ cache' = s.cache

\* require_quota looks at growth only
Fits(delta) == delta <= 0 \/ used + delta <= Quota

\* Success: the tracker is adjusted by the sizes the handler measured
Adjusted(s, delta) ==
  /\ Becomes(s)
  /\ used' = IF used + delta < 0 THEN 0 ELSE used + delta
  /\ UNCHANGED up

\* An error answer leaves the tracker alone; so does the end of the server
Fails(o) ==
  \/ \E s \in o.fails : Becomes(s) /\ loose' = TRUE /\ UNCHANGED <<used, up>>
  \/ \E s \in o.dies : Crashes /\ Becomes(s) /\ up' = FALSE /\ UNCHANGED <<used, loose>>

IndexDelta(s) == IndexBytes(s.config) - IndexBytes(config)

\* Mutant: the growth of index.toml is forgotten
PageDeltaFileOnly(s, p) == Bytes(s.files[p]) - Bytes(files[p])

PageDelta(s, p) == Bytes(s.files[p]) - Bytes(files[p]) + IndexDelta(s)

\* A request that changes the page p, with room for its largest outcome
PageRequest(p, o) ==
  /\ \A s \in o.done : Fits(PageDelta(s, p))
  /\ \/ \E s \in o.done : Adjusted(s, PageDelta(s, p)) /\ UNCHANGED loose
     \/ Fails(o)

UpdateSettings ==
  /\ up
  /\ \E t \in Titles :
       LET s == [Now EXCEPT !.config.title = t]
       IN  /\ Fits(IndexDelta(s))
           /\ \/ Adjusted(s, IndexDelta(s)) /\ UNCHANGED loose
              \/ Fails(Outcomes({}, {Now}, {s}))
  /\ UNCHANGED <<listed, revived>>

\* The admin tab loads the page list
ListPages ==
  /\ up /\ listed # config.pages
  /\ listed' = config.pages
  /\ UNCHANGED <<site, used, up, loose, revived>>

\* The tab saves the order of the pages it listed: the whole list is replaced,
\* whatever happened to the pages meanwhile
UpdateOrder ==
  /\ up
  /\ LET s == SetPages(Now, listed)
     IN  /\ Fits(IndexDelta(s))
         /\ \/ Adjusted(s, IndexDelta(s)) /\ UNCHANGED loose
            \/ Fails(Outcomes({}, {Now}, {s}))
  /\ revived' = revived \cup ((DOMAIN config'.pages) \ (DOMAIN config.pages))
  /\ UNCHANGED listed

CreatePage(p) ==
  /\ up /\ p \in FilePages \ (DOMAIN config.pages)
  /\ \E t \in Titles, c \in Contents : PageRequest(p, Created(p, t, c))
  /\ revived' = revived \ ((DOMAIN config'.pages) \cap {p})
  /\ UNCHANGED listed

RenamePage(p) ==
  /\ up /\ p \in DOMAIN config.pages
  /\ \E t \in Titles : PageRequest(p, Renamed(p, t))
  /\ UNCHANGED <<listed, revived>>

EditPage(p) ==
  /\ up /\ p \in (DOMAIN config.pages) \cap FilePages /\ files[p] # Missing
  /\ \E t \in Titles, c \in Contents : PageRequest(p, Edited(p, t, c))
  /\ UNCHANGED <<listed, revived>>

\* Deleting asks for no room
DeletePage(p) ==
  /\ up /\ p \in (DOMAIN config.pages) \ BuiltinPages
  /\ \E deleteFile \in BOOLEAN :
       LET o == Deleted(p, deleteFile)
       IN  \/ \E s \in o.done : Adjusted(s, PageDelta(s, p)) /\ UNCHANGED loose
           \/ Fails(o)
  /\ UNCHANGED <<listed, revived>>

\* Image files the configuration does not name
Orphans == {e \in Extensions : e # config.image /\ images[e] # Missing}
ImageBytes == IF config.image = NoImage THEN 0 ELSE Bytes(images[config.image])

\* _upload_site_asset: room is asked for the image, not for index.toml
UploadImage(e) ==
  /\ up
  /\ \E c \in Contents :
       LET o == Uploaded(e, c)
       IN  /\ Fits(c - ImageBytes)
           /\ \/ /\ \E s \in o.done : Adjusted(s, c - ImageBytes + IndexDelta(s))
                 /\ loose' = (loose \/ e \in Orphans)
              \/ Fails(o)
  /\ UNCHANGED <<listed, revived>>

\* _delete_site_asset
RemoveImage ==
  /\ up
  /\ \/ \E s \in Removed.done : Adjusted(s, IndexDelta(s) - ImageBytes) /\ UNCHANGED loose
     \/ Fails(Removed)
  /\ UNCHANGED <<listed, revived>>

\* Startup rebuilds the cache from the files and measures the disk
Restart ==
  /\ up' = TRUE
  /\ cache' = Rebuilt(config, files)
  /\ used' = DiskBytes(config, files, images)
  /\ loose' = FALSE
  /\ UNCHANGED <<config, files, images, listed, revived>>

Next ==
  \/ UpdateSettings \/ ListPages \/ UpdateOrder
  \/ \E p \in Pages : CreatePage(p) \/ RenamePage(p) \/ EditPage(p) \/ DeletePage(p)
  \/ \E e \in Extensions : UploadImage(e)
  \/ RemoveImage \/ Restart

Spec == Init /\ [][Next]_vars
-----------------------------------------------------------------------------
\* The types of the variables
TypeOK ==
  /\ config \in Configs
  /\ files \in [Pages -> Contents \cup {Missing, Torn}]
  /\ images \in [Extensions -> Contents \cup {Missing}]
  /\ cache \in [Pages -> Contents \cup {NoRow, Torn}]
  /\ used \in Nat
  /\ up \in BOOLEAN /\ loose \in BOOLEAN
  /\ listed \in PageLists
  /\ revived \subseteq Pages

\* get_page: only listed pages are served, from their rows
Served(p) == IF p \in DOMAIN config.pages THEN cache[p] ELSE NoRow

\* Whatever failed on the way, a running server shows each file-backed page
\* of the list as its file has it, except a file a failed write tore or a
\* page an outdated order put back
PagesServedFromFiles ==
  up => \A p \in (DOMAIN config.pages) \cap FilePages :
          \/ files[p] = Torn \/ p \in revived
          \/ files[p] # Missing /\ Served(p) = files[p]

\* The tracker equals the disk, but for image files that were left behind,
\* unless a request failed or an upload met such a file since the disk was
\* last measured: no mix of kept pages and replaced types makes it drift
CountedBytes == IndexBytes(config) + PageBytes(files) + ImageBytes
UsageIsExact ==
  up /\ ~ loose => used \in CountedBytes .. DiskBytes(config, files, images)

\* The configured image has a file
ImageExists == config.image # NoImage => images[config.image] # Missing
=============================================================================
