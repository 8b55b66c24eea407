----------------------------- MODULE SiteProofs -----------------------------
(***************************************************************************)
(* Theorems about SiteAdmin, for any pages, titles, images and sizes, and  *)
(* whether or not the server may die inside a request.                     *)
(***************************************************************************)
EXTENDS SiteAdmin, FiniteSetTheorems, TLAPS

Files == [Pages -> Contents \cup {Missing, Torn}]
Images == [Extensions -> Contents \cup {Missing}]
Rows == [Pages -> Contents \cup {NoRow, Torn}]
States == [config : Configs, files : Files, images : Images, cache : Rows]

\* The argument.  What readers see is right while the server runs because every
\* listed page has its file also while it does not: the rebuild of the next
\* start makes the rows from the files.  A page is listed after its file was
\* written and unlisted before it is removed.
FilesThere ==
  \A p \in ((DOMAIN config.pages) \cap FilePages) \ revived : files[p] # Missing

IInv == TypeOK /\ FilesThere /\ PagesServedFromFiles /\ UsageIsExact

-----------------------------------------------------------------------------
(* Sums of sizes.                                                           *)

LEMMA UnitsFinite ==
  ASSUME NEW f, IsFiniteSet(DOMAIN f), \A x \in DOMAIN f : f[x] \in Nat
  PROVE  IsFiniteSet(Units(f)) /\ Total(f) \in Nat
<1> DEFINE S == DOMAIN f
           cell == [x \in S |-> {x} \X (1 .. f[x])]
           T == {cell[x] : x \in S}
<1>1. cell \in Surjection(S, T)
  BY DEF Surjection
<1>2. IsFiniteSet(T)
  BY <1>1, FS_Surjection
<1>3. \A C \in T : IsFiniteSet(C)
  <2> SUFFICES ASSUME NEW x \in S PROVE IsFiniteSet({x} \X (1 .. f[x]))
    OBVIOUS
  <2>1. IsFiniteSet({x})
    BY FS_Singleton
  <2>2. f[x] \in Int /\ 1 \in Int
    OBVIOUS
  <2>3. IsFiniteSet(1 .. f[x])
    BY <2>2, FS_Interval
  <2> QED
    BY <2>1, <2>3, FS_Product
<1>4. Units(f) = UNION T
  BY DEF Units
<1>5. IsFiniteSet(Units(f))
  BY <1>2, <1>3, <1>4, FS_UNION
<1> QED
  BY <1>5, FS_CardinalityType DEF Total

\* A sum is one of its terms and the sum of the others
LEMMA TotalSplit ==
  ASSUME NEW f, IsFiniteSet(DOMAIN f), \A y \in DOMAIN f : f[y] \in Nat,
         NEW x \in DOMAIN f
  PROVE  Total(f) = f[x] + Total([y \in (DOMAIN f) \ {x} |-> f[y]])
<1> DEFINE g == [y \in (DOMAIN f) \ {x} |-> f[y]]
           C == {x} \X (1 .. f[x])
<1>1. IsFiniteSet(DOMAIN g) /\ \A y \in DOMAIN g : g[y] \in Nat
  BY FS_RemoveElement
<1>2. IsFiniteSet(Units(g)) /\ Cardinality(Units(g)) \in Nat
  BY <1>1, UnitsFinite DEF Total
<1>3. IsFiniteSet(C) /\ Cardinality(C) = f[x]
  <2>1. IsFiniteSet({x}) /\ Cardinality({x}) = 1
    BY FS_Singleton
  <2>2. IsFiniteSet(1 .. f[x]) /\ Cardinality(1 .. f[x]) = f[x]
    <3>1. f[x] \in Nat /\ f[x] \in Int /\ 1 \in Int
      OBVIOUS
    <3> QED
      BY <3>1, FS_Interval
  <2> DEFINE A == {x}
             B == 1 .. f[x]
  <2>3. IsFiniteSet(A) /\ IsFiniteSet(B) /\ Cardinality(A) = 1 /\ Cardinality(B) = f[x]
    BY <2>1, <2>2
  <2>4. C = A \X B /\ f[x] \in Nat
    OBVIOUS
  <2> HIDE DEF A, B, C
  <2>5. IsFiniteSet(A \X B) /\ Cardinality(A \X B) = Cardinality(A) * Cardinality(B)
    BY ONLY <2>3, FS_Product
  <2>6. 1 * f[x] = f[x]
    BY <2>4
  <2> QED
    BY ONLY <2>3, <2>4, <2>5, <2>6
<1>4. Units(f) = Units(g) \cup C
  BY DEF Units
<1>5. Units(g) \cap C = {}
  BY DEF Units
<1>6. Cardinality(Units(f)) = Cardinality(Units(g)) + Cardinality(C) - Cardinality({})
  BY <1>2, <1>3, <1>4, <1>5, FS_Union
<1>7. Cardinality({}) = 0
  BY FS_EmptySet
<1> QED
  BY <1>2, <1>3, <1>6, <1>7 DEF Total

\* Two tables that differ in one place have sums that differ as much
LEMMA TotalChange ==
  ASSUME NEW S, IsFiniteSet(S), NEW f \in [S -> Nat], NEW g \in [S -> Nat],
         NEW x \in S, \A y \in S \ {x} : g[y] = f[y]
  PROVE  /\ Total(f) \in Nat /\ Total(g) \in Nat
         /\ Total(g) = Total(f) + g[x] - f[x]
         /\ f[x] <= Total(f)
<1> DEFINE h == [y \in S \ {x} |-> f[y]]
<1>1. h = [y \in (DOMAIN f) \ {x} |-> f[y]] /\ h = [y \in (DOMAIN g) \ {x} |-> g[y]]
  OBVIOUS
<1>2. Total(f) = f[x] + Total(h)
  BY <1>1, TotalSplit
<1>3. Total(g) = g[x] + Total(h)
  <2>1. g[x] \in Nat /\ DOMAIN g = S /\ \A y \in DOMAIN g : g[y] \in Nat
    OBVIOUS
  <2>2. Total(g) = g[x] + Total([y \in (DOMAIN g) \ {x} |-> g[y]])
    BY <2>1, TotalSplit
  <2> QED
    BY <1>1, <2>2
<1>4. Total(h) \in Nat
  <2>1. IsFiniteSet(DOMAIN h) /\ \A y \in DOMAIN h : h[y] \in Nat
    BY FS_RemoveElement
  <2> QED
    BY <2>1, UnitsFinite
<1>5. f[x] \in Nat /\ g[x] \in Nat
  OBVIOUS
<1> HIDE DEF h
<1> QED
  BY <1>2, <1>3, <1>4, <1>5

LEMMA BytesType ==
  ASSUME NEW c \in Contents \cup {Missing, Torn}
  PROVE  Bytes(c) \in Nat
BY SiteAssumption DEF Bytes, Missing, Torn

\* index.toml has a size
LEMMA IndexType ==
  ASSUME NEW cfg \in Configs
  PROVE  IndexBytes(cfg) \in Nat
<1> DEFINE f == [p \in DOMAIN cfg.pages |-> 1 + cfg.pages[p]]
<1>1. PICK S \in SUBSET Pages : cfg.pages \in [S -> Titles]
  BY DEF Configs, PageLists
<1>2. IsFiniteSet(DOMAIN f)
  BY <1>1, SiteAssumption, FS_Subset
<1>3. \A p \in DOMAIN f : f[p] \in Nat
  <2> SUFFICES ASSUME NEW p \in DOMAIN cfg.pages PROVE 1 + cfg.pages[p] \in Nat
    OBVIOUS
  <2>1. cfg.pages[p] \in Titles
    BY <1>1
  <2>2. cfg.pages[p] \in Nat
    BY <2>1, SiteAssumption
  <2> QED
    BY <2>2
<1>4. Total(f) \in Nat
  BY <1>2, <1>3, UnitsFinite
<1>5. cfg.title \in Nat
  BY SiteAssumption DEF Configs
<1>6. (IF cfg.image = NoImage THEN 0 ELSE 1) \in Nat
  OBVIOUS
<1> HIDE DEF f
<1>7. IndexBytes(cfg) = cfg.title + Total(f) + (IF cfg.image = NoImage THEN 0 ELSE 1)
  BY DEF IndexBytes, f
<1> QED
  BY <1>4, <1>5, <1>6, <1>7

LEMMA PageBytesType ==
  ASSUME NEW fs \in Files
  PROVE  PageBytes(fs) \in Nat
<1> DEFINE f == [p \in Pages |-> Bytes(fs[p])]
<1>1. IsFiniteSet(DOMAIN f) /\ \A p \in DOMAIN f : f[p] \in Nat
  BY BytesType, SiteAssumption DEF Files
<1>2. Total(f) \in Nat
  BY <1>1, UnitsFinite
<1> QED
  BY <1>2 DEF PageBytes

LEMMA AssetBytesType ==
  ASSUME NEW ims \in Images
  PROVE  AssetBytes(ims) \in Nat
<1> DEFINE f == [e \in Extensions |-> Bytes(ims[e])]
<1>1. IsFiniteSet(DOMAIN f) /\ \A e \in DOMAIN f : f[e] \in Nat
  BY BytesType, SiteAssumption DEF Images
<1>2. Total(f) \in Nat
  BY <1>1, UnitsFinite
<1> QED
  BY <1>2 DEF AssetBytes

\* One page file more, less or changed
LEMMA PageBytesChange ==
  ASSUME NEW fs \in Files, NEW gs \in Files, NEW p \in Pages,
         \A q \in Pages \ {p} : gs[q] = fs[q]
  PROVE  PageBytes(gs) = PageBytes(fs) + Bytes(gs[p]) - Bytes(fs[p])
<1> DEFINE f == [q \in Pages |-> Bytes(fs[q])]
           g == [q \in Pages |-> Bytes(gs[q])]
<1>1. f \in [Pages -> Nat] /\ g \in [Pages -> Nat] /\ IsFiniteSet(Pages)
  BY BytesType, SiteAssumption DEF Files
<1>2. \A q \in Pages \ {p} : g[q] = f[q]
  OBVIOUS
<1>3. f[p] = Bytes(fs[p]) /\ g[p] = Bytes(gs[p])
  OBVIOUS
<1>4. PageBytes(fs) = Total(f) /\ PageBytes(gs) = Total(g)
  BY DEF PageBytes
<1> HIDE DEF f, g
<1>5. Total(g) = Total(f) + g[p] - f[p]
  BY <1>1, <1>2, TotalChange
<1> QED
  BY <1>3, <1>4, <1>5

\* One image file more, less or changed
LEMMA AssetBytesChange ==
  ASSUME NEW fs \in Images, NEW gs \in Images, NEW e \in Extensions,
         \A d \in Extensions \ {e} : gs[d] = fs[d]
  PROVE  /\ AssetBytes(gs) = AssetBytes(fs) + Bytes(gs[e]) - Bytes(fs[e])
         /\ Bytes(fs[e]) <= AssetBytes(fs)
<1> DEFINE f == [d \in Extensions |-> Bytes(fs[d])]
           g == [d \in Extensions |-> Bytes(gs[d])]
<1>1. f \in [Extensions -> Nat] /\ g \in [Extensions -> Nat] /\ IsFiniteSet(Extensions)
  BY BytesType, SiteAssumption DEF Images
<1>2. \A d \in Extensions \ {e} : g[d] = f[d]
  OBVIOUS
<1>3. f[e] = Bytes(fs[e]) /\ g[e] = Bytes(gs[e])
  OBVIOUS
<1>4. AssetBytes(fs) = Total(f) /\ AssetBytes(gs) = Total(g)
  BY DEF AssetBytes
<1> HIDE DEF f, g
<1>5. Total(g) = Total(f) + g[e] - f[e] /\ f[e] <= Total(f)
  BY <1>1, <1>2, TotalChange
<1> QED
  BY <1>3, <1>4, <1>5

DiskNow == DiskBytes(config, files, images)

LEMMA BoundsType ==
  ASSUME TypeOK
  PROVE  /\ IndexBytes(config) \in Nat /\ PageBytes(files) \in Nat
         /\ AssetBytes(images) \in Nat /\ ImageBytes \in Nat
         /\ ImageBytes <= AssetBytes(images)
         /\ CountedBytes \in Nat /\ DiskNow \in Nat /\ CountedBytes <= DiskNow
<1>1. config \in Configs /\ files \in Files /\ images \in Images
  BY DEF TypeOK, Files, Images
<1>2. IndexBytes(config) \in Nat /\ PageBytes(files) \in Nat /\ AssetBytes(images) \in Nat
  BY <1>1, IndexType, PageBytesType, AssetBytesType
<1>3. ImageBytes \in Nat /\ ImageBytes <= AssetBytes(images)
  <2>1. CASE config.image = NoImage
    BY <2>1, <1>2 DEF ImageBytes
  <2>2. CASE config.image # NoImage
    <3>1. config.image \in Extensions
      BY <1>1, <2>2 DEF Configs
    <3>2. images[config.image] \in Contents \cup {Missing}
      BY <1>1, <3>1 DEF Images
    <3>3. Bytes(images[config.image]) \in Nat
      BY <3>2, BytesType
    <3>4. Bytes(images[config.image]) <= AssetBytes(images)
      BY <1>1, <3>1, AssetBytesChange
    <3> QED
      BY <2>2, <3>3, <3>4 DEF ImageBytes
  <2> QED
    BY <2>1, <2>2
<1> QED
  BY <1>2, <1>3 DEF CountedBytes, DiskNow, DiskBytes

-----------------------------------------------------------------------------
(* What one write does to a state.                                          *)

LEMMA SetPagesType ==
  ASSUME NEW s \in States, NEW list \in PageLists
  PROVE  /\ SetPages(s, list) \in States
         /\ SetPages(s, list).config.pages = list
         /\ SetPages(s, list).config.image = s.config.image
         /\ SetPages(s, list).files = s.files
         /\ SetPages(s, list).images = s.images
         /\ SetPages(s, list).cache = s.cache
<1> DEFINE cfg == [s.config EXCEPT !.pages = list]
<1>1. s.config \in Configs
  BY DEF States
<1>2. cfg \in Configs /\ cfg.pages = list /\ cfg.image = s.config.image
  BY <1>1 DEF Configs
<1>3. SetPages(s, list) = [s EXCEPT !.config = cfg]
  BY DEF SetPages
<1> HIDE DEF cfg
<1> QED
  BY <1>2, <1>3 DEF States

LEMMA SetImageType ==
  ASSUME NEW s \in States, NEW e \in Extensions \cup {NoImage}
  PROVE  /\ SetImage(s, e) \in States
         /\ SetImage(s, e).config.pages = s.config.pages
         /\ SetImage(s, e).config.image = e
         /\ SetImage(s, e).files = s.files
         /\ SetImage(s, e).images = s.images
         /\ SetImage(s, e).cache = s.cache
<1> DEFINE cfg == [s.config EXCEPT !.image = e]
<1>1. s.config \in Configs
  BY DEF States
<1>2. cfg \in Configs /\ cfg.pages = s.config.pages /\ cfg.image = e
  BY <1>1 DEF Configs
<1>3. SetImage(s, e) = [s EXCEPT !.config = cfg]
  BY DEF SetImage
<1> HIDE DEF cfg
<1> QED
  BY <1>2, <1>3 DEF States

LEMMA SetFileType ==
  ASSUME NEW s \in States, NEW p \in Pages, NEW c \in Contents \cup {Missing, Torn}
  PROVE  /\ SetFile(s, p, c) \in States
         /\ SetFile(s, p, c).config = s.config
         /\ SetFile(s, p, c).files = [s.files EXCEPT ![p] = c]
         /\ SetFile(s, p, c).images = s.images
         /\ SetFile(s, p, c).cache = s.cache
<1> DEFINE fs == [s.files EXCEPT ![p] = c]
<1>1. s.files \in Files
  BY DEF States
<1>2. fs \in Files
  BY <1>1 DEF Files
<1>3. SetFile(s, p, c) = [s EXCEPT !.files = fs]
  BY DEF SetFile
<1> HIDE DEF fs
<1>4. SetFile(s, p, c).files = fs
  BY <1>3 DEF States
<1> QED
  BY <1>2, <1>3, <1>4 DEF States, fs

LEMMA SetRowType ==
  ASSUME NEW s \in States, NEW p \in Pages, NEW c \in Contents \cup {NoRow, Torn}
  PROVE  /\ SetRow(s, p, c) \in States
         /\ SetRow(s, p, c).config = s.config
         /\ SetRow(s, p, c).files = s.files
         /\ SetRow(s, p, c).images = s.images
         /\ SetRow(s, p, c).cache = [s.cache EXCEPT ![p] = c]
<1> DEFINE rows == [s.cache EXCEPT ![p] = c]
<1>1. s.cache \in Rows
  BY DEF States
<1>2. rows \in Rows
  BY <1>1 DEF Rows
<1>3. SetRow(s, p, c) = [s EXCEPT !.cache = rows]
  BY DEF SetRow
<1> HIDE DEF rows
<1>4. SetRow(s, p, c).cache = rows
  BY <1>3 DEF States
<1> QED
  BY <1>2, <1>3, <1>4 DEF States, rows

LEMMA SetBytesType ==
  ASSUME NEW s \in States, NEW e \in Extensions, NEW c \in Contents \cup {Missing}
  PROVE  /\ SetBytes(s, e, c) \in States
         /\ SetBytes(s, e, c).config = s.config
         /\ SetBytes(s, e, c).files = s.files
         /\ SetBytes(s, e, c).images = [s.images EXCEPT ![e] = c]
         /\ SetBytes(s, e, c).cache = s.cache
<1> DEFINE ims == [s.images EXCEPT ![e] = c]
<1>1. s.images \in Images
  BY DEF States
<1>2. ims \in Images
  BY <1>1 DEF Images
<1>3. SetBytes(s, e, c) = [s EXCEPT !.images = ims]
  BY DEF SetBytes
<1> HIDE DEF ims
<1>4. SetBytes(s, e, c).images = ims
  BY <1>3 DEF States
<1> QED
  BY <1>2, <1>3, <1>4 DEF States, ims

LEMMA NowType ==
  ASSUME TypeOK
  PROVE  /\ Now \in States
         /\ Now.config = config /\ Now.files = files
         /\ Now.images = images /\ Now.cache = cache
BY DEF Now, TypeOK, States, Files, Images, Rows

LEMMA ListTypes ==
  ASSUME NEW list \in PageLists, NEW p \in Pages, NEW t \in Titles
  PROVE  /\ With(list, p, t) \in PageLists
         /\ DOMAIN With(list, p, t) = (DOMAIN list) \cup {p}
         /\ Without(list, p) \in PageLists
         /\ DOMAIN Without(list, p) = (DOMAIN list) \ {p}
<1>1. PICK S \in SUBSET Pages : list \in [S -> Titles]
  BY DEF PageLists
<1>2. With(list, p, t) \in [S \cup {p} -> Titles] /\ S \cup {p} \in SUBSET Pages
  BY <1>1 DEF With
<1>3. Without(list, p) \in [S \ {p} -> Titles] /\ S \ {p} \in SUBSET Pages
  BY <1>1 DEF Without
<1>4. DOMAIN With(list, p, t) = (DOMAIN list) \cup {p}
  BY DEF With
<1>5. DOMAIN Without(list, p) = (DOMAIN list) \ {p}
  BY DEF Without
<1> QED
  BY <1>2, <1>3, <1>4, <1>5 DEF PageLists

-----------------------------------------------------------------------------
(* The requests about one page.                                             *)

\* All but the page p is as before
AboutPage(s, p) ==
  /\ s \in States
  /\ s.images = images /\ s.config.image = config.image
  /\ \A q \in Pages \ {p} :
       /\ q \in DOMAIN s.config.pages <=> q \in DOMAIN config.pages
       /\ s.files[q] = files[q] /\ s.cache[q] = cache[q]

\* In the state s the page p has its file, and its row shows it
HasFile(s, p) == p \in (DOMAIN s.config.pages) \cap FilePages => s.files[p] # Missing
Shows(s, p) == p \in (DOMAIN s.config.pages) \cap FilePages =>
                 \/ s.files[p] = Torn
                 \/ s.files[p] # Missing /\ s.cache[p] = s.files[p]

\* What an outcome keeps of p, when the server runs on and when it dies
Runs(s, p) == (HasFile(Now, p) => HasFile(s, p)) /\ (Shows(Now, p) => Shows(s, p))
Dies(s, p) == HasFile(Now, p) => HasFile(s, p)

Sound(o, p) ==
  /\ \A s \in o.done \cup o.fails : AboutPage(s, p) /\ Runs(s, p)
  /\ \A s \in o.dies : AboutPage(s, p) /\ Dies(s, p)

LEMMA ConfigType ==
  ASSUME TypeOK
  PROVE  config.pages \in PageLists /\ DOMAIN config.pages \subseteq Pages
BY DEF TypeOK, Configs, PageLists

\* The page list with one page more or less, put into the present state
LEMMA RelistedType ==
  ASSUME TypeOK, NEW list \in PageLists
  PROVE  /\ SetPages(Now, list) \in States
         /\ SetPages(Now, list).config.pages = list
         /\ SetPages(Now, list).config.image = config.image
         /\ SetPages(Now, list).files = files
         /\ SetPages(Now, list).images = images
         /\ SetPages(Now, list).cache = cache
<1>1. Now \in States /\ Now.config = config /\ Now.files = files
      /\ Now.images = images /\ Now.cache = cache
  BY NowType
<1> QED
  BY <1>1, SetPagesType

LEMMA BrokenSound ==
  ASSUME TypeOK, NEW p \in Pages,
         p \in DOMAIN config.pages => files[p] # Missing
  PROVE  \A s \in Broken(Now, p) : AboutPage(s, p) /\ Runs(s, p)
<1>1. Torn \in Contents \cup {Missing, Torn} /\ Torn # Missing
  BY DEF Torn, Missing
<1>2. AboutPage(Now, p) /\ Runs(Now, p)
  BY NowType DEF AboutPage, Runs
<1> DEFINE s == SetFile(Now, p, Torn)
<1>3. /\ s \in States /\ s.config = config /\ s.images = images
      /\ s.cache = cache /\ s.files = [files EXCEPT ![p] = Torn]
  BY <1>1, NowType, SetFileType
<1>4. Broken(Now, p) = {Now, s}
  BY DEF Broken
<1> HIDE DEF s
<1>5. files \in Files
  BY DEF TypeOK, Files
<1>6. s.files[p] = Torn /\ \A q \in Pages \ {p} : s.files[q] = files[q]
  BY <1>3, <1>5 DEF Files
<1>7. AboutPage(s, p)
  BY <1>3, <1>6 DEF AboutPage
<1>8. Runs(s, p)
  BY <1>1, <1>6 DEF Runs, HasFile, Shows
<1> QED
  BY <1>2, <1>4, <1>7, <1>8

LEMMA CreatedSound ==
  ASSUME TypeOK, NEW p \in FilePages \ (DOMAIN config.pages),
         NEW t \in Titles, NEW c \in Contents
  PROVE  Sound(Created(p, t, c), p)
<1> DEFINE s1 == SetFile(Now, p, c)
           s2 == SetPages(s1, With(config.pages, p, t))
           s3 == SetRow(s2, p, c)
           s0 == SetFile(Now, p, Missing)
<1>1. p \in Pages /\ c # Missing
  BY SiteAssumption DEF FilePages, Missing
<1>2. /\ s1 \in States /\ s1.config = config /\ s1.images = images
      /\ s1.cache = cache /\ s1.files = [files EXCEPT ![p] = c]
  BY <1>1, NowType, SetFileType
<1>3. /\ s2 \in States /\ s2.config.pages = With(config.pages, p, t)
      /\ s2.config.image = config.image /\ s2.images = images
      /\ s2.cache = cache /\ s2.files = [files EXCEPT ![p] = c]
  BY <1>1, <1>2, ConfigType, ListTypes, SetPagesType
<1>4. /\ s3 \in States /\ s3.config = s2.config /\ s3.images = images
      /\ s3.files = [files EXCEPT ![p] = c] /\ s3.cache = [cache EXCEPT ![p] = c]
  <2>1. c \in Contents \cup {NoRow, Torn}
    OBVIOUS
  <2> HIDE DEF s2
  <2> QED
    BY <1>1, <1>3, <2>1, SetRowType
<1>5. /\ s0 \in States /\ s0.config = config /\ s0.images = images
      /\ s0.cache = cache /\ s0.files = [files EXCEPT ![p] = Missing]
  BY <1>1, NowType, SetFileType
<1>6. /\ DOMAIN With(config.pages, p, t) = (DOMAIN config.pages) \cup {p}
      /\ files \in Files /\ cache \in Rows
  BY <1>1, ConfigType, ListTypes DEF TypeOK, Files, Rows
<1>7. Created(p, t, c) = Outcomes({s3}, Broken(Now, p) \cup {s0}, {s1, s2})
  BY DEF Created
<1> HIDE DEF s0, s1, s2, s3
<1>8. AboutPage(s0, p) /\ AboutPage(s1, p) /\ AboutPage(s2, p) /\ AboutPage(s3, p)
  BY <1>1, <1>2, <1>3, <1>4, <1>5, <1>6 DEF AboutPage, Files, Rows
<1>9. s3.files[p] = c /\ s3.cache[p] = c /\ s2.files[p] = c
  BY <1>1, <1>3, <1>4, <1>6 DEF Files, Rows
<1>10. Runs(s3, p) /\ Dies(s2, p)
  BY <1>1, <1>9 DEF Runs, Dies, HasFile, Shows
<1>11. Runs(s0, p) /\ Dies(s1, p)
  BY <1>2, <1>5 DEF Runs, Dies, HasFile, Shows
<1>12. \A s \in Broken(Now, p) : AboutPage(s, p) /\ Runs(s, p)
  BY <1>1, BrokenSound
<1> QED
  BY <1>7, <1>8, <1>10, <1>11, <1>12 DEF Sound, Outcomes

LEMMA RenamedSound ==
  ASSUME TypeOK, NEW p \in DOMAIN config.pages, NEW t \in Titles
  PROVE  Sound(Renamed(p, t), p)
<1> DEFINE s == SetPages(Now, With(config.pages, p, t))
<1>1. p \in Pages /\ Now \in States
  BY ConfigType, NowType
<1>2. /\ s \in States /\ s.config.pages = With(config.pages, p, t)
      /\ s.config.image = config.image /\ s.images = images
      /\ s.cache = cache /\ s.files = files
  <2>1. With(config.pages, p, t) \in PageLists
    BY <1>1, ConfigType, ListTypes
  <2> QED
    BY <2>1, RelistedType
<1>3. DOMAIN With(config.pages, p, t) = DOMAIN config.pages
  BY DEF With
<1>4. Renamed(p, t) = Outcomes({s}, {Now}, {s})
  BY DEF Renamed
<1> HIDE DEF s
<1>5. AboutPage(s, p) /\ Runs(s, p) /\ Dies(s, p)
  BY <1>2, <1>3, NowType DEF AboutPage, Runs, Dies, HasFile, Shows
<1>6. AboutPage(Now, p) /\ Runs(Now, p)
  BY <1>1, NowType DEF AboutPage, Runs
<1> QED
  BY <1>4, <1>5, <1>6 DEF Sound, Outcomes

LEMMA EditedSound ==
  ASSUME TypeOK, NEW p \in (DOMAIN config.pages) \cap FilePages, files[p] # Missing,
         NEW t \in Titles, NEW c \in Contents
  PROVE  Sound(Edited(p, t, c), p)
<1> DEFINE s1 == SetPages(Now, With(config.pages, p, t))
           s2 == SetFile(s1, p, c)
           s3 == SetRow(s2, p, c)
<1>1. p \in Pages /\ c # Missing
  BY SiteAssumption DEF FilePages, Missing
<1>2. /\ s1 \in States /\ s1.config.pages = With(config.pages, p, t)
      /\ s1.config.image = config.image /\ s1.images = images
      /\ s1.cache = cache /\ s1.files = files
  <2>1. With(config.pages, p, t) \in PageLists
    BY <1>1, ConfigType, ListTypes
  <2> QED
    BY <2>1, RelistedType
<1>3. /\ s2 \in States /\ s2.config = s1.config /\ s2.images = images
      /\ s2.cache = cache /\ s2.files = [files EXCEPT ![p] = c]
  <2>1. c \in Contents \cup {Missing, Torn}
    OBVIOUS
  <2> HIDE DEF s1
  <2> QED
    BY <1>1, <1>2, <2>1, SetFileType
<1>4. /\ s3 \in States /\ s3.config = s1.config /\ s3.images = images
      /\ s3.files = [files EXCEPT ![p] = c] /\ s3.cache = [cache EXCEPT ![p] = c]
  <2>1. c \in Contents \cup {NoRow, Torn}
    OBVIOUS
  <2> HIDE DEF s2
  <2> QED
    BY <1>1, <1>3, <2>1, SetRowType
<1>5. /\ DOMAIN With(config.pages, p, t) = DOMAIN config.pages
      /\ files \in Files /\ cache \in Rows
  BY DEF TypeOK, Files, Rows, With
<1>6. Edited(p, t, c) = Outcomes({s3}, Broken(Now, p), {s1, s2})
  BY DEF Edited
<1> HIDE DEF s1, s2, s3
<1>7. AboutPage(s1, p) /\ AboutPage(s2, p) /\ AboutPage(s3, p)
  BY <1>1, <1>2, <1>3, <1>4, <1>5 DEF AboutPage, Files, Rows
<1>8. s3.files[p] = c /\ s3.cache[p] = c /\ s2.files[p] = c /\ s1.files[p] # Missing
  BY <1>1, <1>2, <1>3, <1>4, <1>5 DEF Files, Rows
<1>9. Runs(s3, p) /\ Dies(s1, p) /\ Dies(s2, p)
  BY <1>1, <1>8 DEF Runs, Dies, HasFile, Shows
<1>10. \A s \in Broken(Now, p) : AboutPage(s, p) /\ Runs(s, p)
  BY <1>1, BrokenSound
<1> QED
  BY <1>6, <1>7, <1>9, <1>10 DEF Sound, Outcomes

LEMMA DeletedSound ==
  ASSUME TypeOK, NEW p \in (DOMAIN config.pages) \ BuiltinPages, NEW deleteFile \in BOOLEAN
  PROVE  Sound(Deleted(p, deleteFile), p)
<1> DEFINE s1 == SetPages(Now, Without(config.pages, p))
           s2 == IF deleteFile THEN SetFile(s1, p, Missing) ELSE s1
           s3 == IF deleteFile THEN SetRow(s2, p, NoRow) ELSE s2
           s4 == SetRow(s1, p, s3.cache[p])
           Gone(s) == /\ s \in States /\ s.config = s1.config /\ s.images = images
                      /\ \A q \in Pages \ {p} : s.files[q] = files[q] /\ s.cache[q] = cache[q]
<1>1. p \in Pages
  BY ConfigType
<1>2. /\ s1 \in States /\ s1.config.pages = Without(config.pages, p)
      /\ s1.config.image = config.image /\ s1.images = images
      /\ s1.cache = cache /\ s1.files = files
  <2>1. PICK t \in Titles : TRUE
    BY SiteAssumption
  <2>2. Without(config.pages, p) \in PageLists
    BY <1>1, <2>1, ConfigType, ListTypes
  <2> QED
    BY <2>2, RelistedType
<1>3. DOMAIN Without(config.pages, p) = (DOMAIN config.pages) \ {p}
  BY DEF Without
<1>4. files \in Files /\ cache \in Rows
  BY DEF TypeOK, Files, Rows
<1>5. Deleted(p, deleteFile) = Outcomes({s3, s2, s4}, {Now}, {s1, s2})
  BY DEF Deleted
<1>6. Gone(s1)
  BY <1>2
<1>7. Gone(s2)
  <2>1. /\ SetFile(s1, p, Missing) \in States
        /\ SetFile(s1, p, Missing).config = s1.config
        /\ SetFile(s1, p, Missing).files = [files EXCEPT ![p] = Missing]
        /\ SetFile(s1, p, Missing).images = images
        /\ SetFile(s1, p, Missing).cache = cache
    <3> HIDE DEF s1
    <3> QED
      BY <1>1, <1>2, SetFileType
  <2> HIDE DEF s1
  <2> QED
    BY <1>4, <1>6, <2>1 DEF Files
<1>8. Gone(s3)
  <2>1. /\ SetRow(s2, p, NoRow) \in States
        /\ SetRow(s2, p, NoRow).config = s2.config
        /\ SetRow(s2, p, NoRow).files = s2.files
        /\ SetRow(s2, p, NoRow).images = s2.images
        /\ SetRow(s2, p, NoRow).cache = [s2.cache EXCEPT ![p] = NoRow]
    <3>1. s2 \in States /\ NoRow \in Contents \cup {NoRow, Torn}
      BY <1>7
    <3> HIDE DEF s2
    <3> QED
      BY <1>1, <3>1, SetRowType
  <2>2. s2.cache \in Rows
    BY <1>7 DEF States
  <2> HIDE DEF s1, s2
  <2> QED
    BY <1>7, <2>1, <2>2 DEF Rows
<1>9. Gone(s4)
  <2>1. s3.cache[p] \in Contents \cup {NoRow, Torn}
    <3>1. s3.cache \in Rows
      BY <1>8 DEF States
    <3> HIDE DEF s3
    <3> QED
      BY <1>1, <3>1 DEF Rows
  <2> DEFINE c == s3.cache[p]
  <2> HIDE DEF s1, s3, c
  <2>2. /\ SetRow(s1, p, c) \in States
        /\ SetRow(s1, p, c).config = s1.config
        /\ SetRow(s1, p, c).files = s1.files
        /\ SetRow(s1, p, c).images = s1.images
        /\ SetRow(s1, p, c).cache = [s1.cache EXCEPT ![p] = c]
    BY <1>1, <1>2, <2>1, SetRowType DEF c
  <2> QED
    BY <1>2, <1>4, <2>2 DEF Rows, c
<1> HIDE DEF s1, s2, s3, s4
<1>10. ASSUME NEW s, Gone(s) PROVE AboutPage(s, p) /\ Runs(s, p) /\ Dies(s, p)
  BY <1>2, <1>3, <1>10 DEF AboutPage, Runs, Dies, HasFile, Shows
<1>11. AboutPage(Now, p) /\ Runs(Now, p)
  BY NowType DEF AboutPage, Runs
<1> HIDE DEF Gone
<1> QED
  BY <1>5, <1>6, <1>7, <1>8, <1>9, <1>10, <1>11 DEF Sound, Outcomes

-----------------------------------------------------------------------------
(* A step keeps the invariant.                                              *)

LEMMA StateType ==
  ASSUME TypeOK, NEW s \in States, Becomes(s), used' \in Nat,
         up' \in BOOLEAN, loose' \in BOOLEAN, listed' \in PageLists, revived' \subseteq Pages
  PROVE  TypeOK'
<1>1. s.config \in Configs /\ s.files \in Files /\ s.images \in Images /\ s.cache \in Rows
  BY DEF States
<1> QED
  BY <1>1 DEF Becomes, TypeOK, Files, Images, Rows

\* What readers see after a request about p that ended in the state s
LEMMA PageStepServes ==
  ASSUME IInv, up, NEW p \in Pages, NEW s, AboutPage(s, p), Becomes(s),
         Dies(s, p), up' => Runs(s, p),
         revived' = revived \/ (p \notin DOMAIN config.pages /\ revived' = revived \ {p})
  PROVE  FilesThere' /\ PagesServedFromFiles'
<1>1. config' = s.config /\ files' = s.files /\ cache' = s.cache
  BY DEF Becomes
<1>2. ASSUME NEW q \in Pages, q \in (DOMAIN s.config.pages) \cap FilePages, q \notin revived'
      PROVE  /\ s.files[q] # Missing
             /\ up' => s.files[q] = Torn \/ s.cache[q] = s.files[q]
  <2>1. CASE q # p
    <3>1. /\ q \in (DOMAIN config.pages) \cap FilePages
          /\ s.files[q] = files[q] /\ s.cache[q] = cache[q]
      BY <1>2, <2>1 DEF AboutPage
    <3>2. q \notin revived
      BY <1>2, <2>1
    <3>3. files[q] # Missing
      BY <3>1, <3>2 DEF IInv, FilesThere
    <3>4. files[q] = Torn \/ cache[q] = files[q]
      BY <3>1, <3>2 DEF IInv, PagesServedFromFiles, Served
    <3> QED
      BY <3>1, <3>3, <3>4
  <2>2. CASE q = p
    <3>1. HasFile(Now, p)
      BY <1>2, <2>2, NowType DEF HasFile, IInv, FilesThere
    <3>2. Shows(Now, p)
      BY <1>2, <2>2, NowType DEF Shows, IInv, PagesServedFromFiles, Served
    <3>3. HasFile(s, p) /\ (up' => Shows(s, p))
      BY <3>1, <3>2 DEF Dies, Runs
    <3> QED
      BY <1>2, <2>2, <3>3 DEF HasFile, Shows
  <2> QED
    BY <2>1, <2>2
<1>3. FilesThere'
  BY <1>1, <1>2 DEF FilesThere, FilePages
<1>4. PagesServedFromFiles'
  BY <1>1, <1>2 DEF PagesServedFromFiles, Served, FilePages
<1> QED
  BY <1>3, <1>4

\* What index.toml and the page p grow by is what the request measured
LEMMA PageStepUsage ==
  ASSUME IInv, up, NEW p \in Pages, NEW s, AboutPage(s, p),
         Adjusted(s, PageDelta(s, p)), UNCHANGED loose
  PROVE  used' \in Nat /\ UsageIsExact'
<1> DEFINE d == PageDelta(s, p)
           i == IndexBytes(s.config)
           f == PageBytes(s.files)
           b == Bytes(s.files[p])
           b0 == Bytes(files[p])
<1>1. /\ config' = s.config /\ files' = s.files /\ images' = images
      /\ used' = IF used + d < 0 THEN 0 ELSE used + d
      /\ up' = up /\ loose' = loose
  BY DEF Adjusted, Becomes, AboutPage
<1>2. s.config \in Configs /\ s.files \in Files
  BY DEF AboutPage, States
<1>3. files \in Files /\ used \in Nat
  BY DEF IInv, TypeOK, Files
<1>4. i \in Nat /\ f \in Nat
  BY <1>2, IndexType, PageBytesType
<1>5. b \in Nat /\ b0 \in Nat
  <2>1. s.files[p] \in Contents \cup {Missing, Torn} /\ files[p] \in Contents \cup {Missing, Torn}
    BY <1>2, <1>3 DEF Files
  <2> QED
    BY <2>1, BytesType
<1>6. f = PageBytes(files) + b - b0
  <2>1. \A q \in Pages \ {p} : s.files[q] = files[q]
    BY DEF AboutPage
  <2> QED
    BY <1>2, <1>3, <2>1, PageBytesChange
<1>7. d = b - b0 + (i - IndexBytes(config))
  BY DEF PageDelta, IndexDelta
<1>8. /\ IndexBytes(config) \in Nat /\ PageBytes(files) \in Nat
      /\ AssetBytes(images) \in Nat /\ ImageBytes \in Nat
  BY BoundsType DEF IInv
<1>9. ImageBytes' = ImageBytes
  <2>1. config'.image = config.image
    BY <1>1 DEF AboutPage
  <2> QED
    BY <1>1, <2>1 DEF ImageBytes
<1>10. CountedBytes' = i + f + ImageBytes
  BY <1>1, <1>9 DEF CountedBytes
<1>11. DiskBytes(config, files, images)' = i + f + AssetBytes(images)
  BY <1>1 DEF DiskBytes
<1>12. /\ CountedBytes = IndexBytes(config) + PageBytes(files) + ImageBytes
       /\ DiskBytes(config, files, images)
            = IndexBytes(config) + PageBytes(files) + AssetBytes(images)
  BY DEF CountedBytes, DiskBytes
<1>13. ~ loose => used \in CountedBytes .. DiskBytes(config, files, images)
  BY DEF IInv, UsageIsExact
<1> HIDE DEF d, i, f, b, b0
<1>14. used' \in Nat
  BY <1>1, <1>3, <1>4, <1>5, <1>7, <1>8
<1>15. CASE ~ loose
  <2>1. /\ used >= IndexBytes(config) + PageBytes(files) + ImageBytes
        /\ used <= IndexBytes(config) + PageBytes(files) + AssetBytes(images)
    BY <1>12, <1>13, <1>15, <1>8, <1>3
  <2>2. used' = used + d
    BY <2>1, <1>1, <1>3, <1>4, <1>5, <1>6, <1>7, <1>8
  <2>3. used' >= i + f + ImageBytes /\ used' <= i + f + AssetBytes(images)
    BY <2>1, <2>2, <1>3, <1>4, <1>5, <1>6, <1>7, <1>8
  <2>4. used' \in CountedBytes' .. DiskBytes(config, files, images)'
    BY <2>3, <1>4, <1>8, <1>10, <1>11, <1>14
  <2> QED
    BY <2>4, <1>14 DEF UsageIsExact
<1> QED
  BY <1>1, <1>14, <1>15 DEF UsageIsExact

\* An error answer, or the end of the server
LEMMA FailureUsage ==
  ASSUME IInv, up, NEW o, Fails(o)
  PROVE  /\ used' \in Nat /\ loose' \in BOOLEAN /\ up' \in BOOLEAN /\ UsageIsExact'
         /\ \/ up' /\ \E s \in o.fails : Becomes(s)
            \/ ~ up' /\ \E s \in o.dies : Becomes(s)
BY DEF Fails, IInv, TypeOK, UsageIsExact

\* A request about one page
LEMMA PageRequestKeeps ==
  ASSUME IInv, up, NEW p \in Pages, NEW o, Sound(o, p),
         \/ \E s \in o.done : Adjusted(s, PageDelta(s, p)) /\ UNCHANGED loose
         \/ Fails(o),
         UNCHANGED listed,
         revived' = revived \/ (p \notin DOMAIN config.pages /\ revived' = revived \ {p})
  PROVE  IInv'
<1>1. listed' \in PageLists /\ revived' \subseteq Pages /\ TypeOK
  BY DEF IInv, TypeOK
<1>2. CASE \E s \in o.done : Adjusted(s, PageDelta(s, p)) /\ UNCHANGED loose
  <2>1. PICK s \in o.done : Adjusted(s, PageDelta(s, p)) /\ UNCHANGED loose
    BY <1>2
  <2>2. AboutPage(s, p) /\ Runs(s, p) /\ Dies(s, p)
    BY DEF Sound, Runs, Dies
  <2>3. Becomes(s) /\ s \in States /\ up' = up
    BY <2>1, <2>2 DEF Adjusted, AboutPage
  <2>4. used' \in Nat /\ UsageIsExact'
    BY <2>1, <2>2, PageStepUsage
  <2>5. FilesThere' /\ PagesServedFromFiles'
    BY <2>2, <2>3, PageStepServes
  <2>6. up' \in BOOLEAN /\ loose' \in BOOLEAN
    BY <1>1, <2>1, <2>3 DEF TypeOK
  <2>7. TypeOK'
    BY <1>1, <2>3, <2>4, <2>6, StateType
  <2> QED
    BY <2>4, <2>5, <2>7 DEF IInv
<1>3. CASE Fails(o)
  <2>1. /\ used' \in Nat /\ loose' \in BOOLEAN /\ up' \in BOOLEAN /\ UsageIsExact'
        /\ \/ up' /\ \E s \in o.fails : Becomes(s)
           \/ ~ up' /\ \E s \in o.dies : Becomes(s)
    BY <1>3, FailureUsage
  <2>2. PICK s \in o.fails \cup o.dies :
          Becomes(s) /\ AboutPage(s, p) /\ Dies(s, p) /\ (up' => Runs(s, p))
    BY <2>1 DEF Sound, Runs, Dies
  <2>3. FilesThere' /\ PagesServedFromFiles'
    BY <2>2, PageStepServes
  <2>4. s \in States
    BY <2>2 DEF AboutPage
  <2>5. TypeOK'
    BY <1>1, <2>1, <2>2, <2>4, StateType
  <2> QED
    BY <2>1, <2>3, <2>5 DEF IInv
<1> QED
  BY <1>2, <1>3

\* A request that leaves page files and rows alone, and remembers the pages it
\* puts back into the list
LEMMA OtherStepServes ==
  ASSUME IInv, up, UNCHANGED <<files, cache>>, revived \subseteq revived',
         (DOMAIN config'.pages) \ (DOMAIN config.pages) \subseteq revived'
  PROVE  FilesThere' /\ PagesServedFromFiles'
<1>1. ASSUME NEW q \in (DOMAIN config'.pages) \cap FilePages, q \notin revived'
      PROVE  files[q] # Missing /\ (files[q] = Torn \/ cache[q] = files[q])
  <2>1. q \in (DOMAIN config.pages) \cap FilePages /\ q \notin revived
    BY <1>1
  <2> QED
    BY <2>1 DEF IInv, FilesThere, PagesServedFromFiles, Served
<1> QED
  BY <1>1 DEF FilesThere, PagesServedFromFiles, Served, FilePages

\* A request that changes the title or the list in index.toml
LEMMA IndexStepKeeps ==
  ASSUME IInv, up, NEW s \in States,
         s.files = files, s.images = images, s.cache = cache,
         s.config.image = config.image,
         \/ Adjusted(s, IndexDelta(s)) /\ UNCHANGED loose
         \/ Fails(Outcomes({}, {Now}, {s})),
         UNCHANGED listed, revived' \subseteq Pages, revived \subseteq revived',
         (DOMAIN config'.pages) \ (DOMAIN config.pages) \subseteq revived'
  PROVE  IInv'
<1>1. listed' \in PageLists /\ TypeOK
  BY DEF IInv, TypeOK
<1>2. CASE Adjusted(s, IndexDelta(s)) /\ UNCHANGED loose
  <2> DEFINE i == IndexBytes(s.config)
  <2>1. /\ config' = s.config /\ files' = files /\ images' = images /\ cache' = cache
        /\ used' = IF used + (i - IndexBytes(config)) < 0 THEN 0
                   ELSE used + (i - IndexBytes(config))
        /\ up' = up /\ loose' = loose /\ Becomes(s)
    BY <1>2 DEF Adjusted, Becomes, IndexDelta
  <2>2. i \in Nat
    BY IndexType DEF States
  <2>3. /\ IndexBytes(config) \in Nat /\ PageBytes(files) \in Nat
        /\ AssetBytes(images) \in Nat /\ ImageBytes \in Nat /\ used \in Nat
    BY <1>1, BoundsType DEF TypeOK
  <2>4. ImageBytes' = ImageBytes
    BY <2>1 DEF ImageBytes
  <2>5. /\ CountedBytes' = i + PageBytes(files) + ImageBytes
        /\ DiskBytes(config, files, images)' = i + PageBytes(files) + AssetBytes(images)
        /\ CountedBytes = IndexBytes(config) + PageBytes(files) + ImageBytes
        /\ DiskBytes(config, files, images)
             = IndexBytes(config) + PageBytes(files) + AssetBytes(images)
    BY <2>1, <2>4 DEF CountedBytes, DiskBytes
  <2>6. ~ loose => used \in CountedBytes .. DiskBytes(config, files, images)
    BY DEF IInv, UsageIsExact
  <2> HIDE DEF i
  <2>7. used' \in Nat
    BY <2>1, <2>2, <2>3
  <2>8. ~ loose => used' \in CountedBytes' .. DiskBytes(config, files, images)'
    <3> SUFFICES ASSUME ~ loose
                 PROVE  used' \in CountedBytes' .. DiskBytes(config, files, images)'
      OBVIOUS
    <3>1. /\ used >= IndexBytes(config) + PageBytes(files) + ImageBytes
          /\ used <= IndexBytes(config) + PageBytes(files) + AssetBytes(images)
      BY <2>3, <2>5, <2>6
    <3>2. used' = used + (i - IndexBytes(config))
      BY <2>1, <2>2, <2>3, <3>1
    <3>3. used' >= i + PageBytes(files) + ImageBytes /\ used' <= i + PageBytes(files) + AssetBytes(images)
      BY <2>2, <2>3, <3>1, <3>2
    <3> QED
      BY <2>2, <2>3, <2>5, <2>7, <3>3
  <2>9. UsageIsExact'
    BY <2>1, <2>8 DEF UsageIsExact
  <2>10. up' \in BOOLEAN /\ loose' \in BOOLEAN
    BY <1>1, <2>1 DEF TypeOK
  <2>11. TypeOK'
    BY <1>1, <2>1, <2>7, <2>10, StateType
  <2>12. FilesThere' /\ PagesServedFromFiles'
    BY <2>1, OtherStepServes
  <2> QED
    BY <2>9, <2>11, <2>12 DEF IInv
<1>3. CASE Fails(Outcomes({}, {Now}, {s}))
  <2>1. /\ used' \in Nat /\ loose' \in BOOLEAN /\ up' \in BOOLEAN /\ UsageIsExact'
        /\ Becomes(Now) \/ Becomes(s)
    BY <1>3, FailureUsage DEF Outcomes
  <2>2. PICK z \in States : Becomes(z) /\ z.files = files /\ z.cache = cache
    BY <1>1, <2>1, NowType
  <2>3. TypeOK'
    BY <1>1, <2>1, <2>2, StateType
  <2>4. files' = files /\ cache' = cache
    BY <2>2 DEF Becomes
  <2>5. FilesThere' /\ PagesServedFromFiles'
    BY <2>4, OtherStepServes
  <2> QED
    BY <2>1, <2>3, <2>5 DEF IInv
<1> QED
  BY <1>2, <1>3

\* A request about an image: index.toml keeps its pages, and pages their files.
\* The tracker moves between what the images in use hold and what all of them do.
LEMMA ImageStepKeeps ==
  ASSUME IInv, up, NEW s \in States, Becomes(s),
         s.files = files, s.cache = cache, s.config.pages = config.pages,
         used' \in Nat, up' \in BOOLEAN, loose' \in BOOLEAN, UsageIsExact',
         UNCHANGED <<listed, revived>>
  PROVE  IInv'
<1>1. listed' \in PageLists /\ revived' \subseteq Pages /\ TypeOK
  BY DEF IInv, TypeOK
<1>2. TypeOK'
  BY <1>1, StateType
<1>3. config'.pages = config.pages /\ UNCHANGED <<files, cache>>
  BY DEF Becomes
<1>4. FilesThere' /\ PagesServedFromFiles'
  BY <1>3, OtherStepServes
<1> QED
  BY <1>2, <1>4 DEF IInv

\* Outcomes of requests about images keep pages, files and rows
AboutImages(s) ==
  /\ s \in States
  /\ s.files = files /\ s.cache = cache /\ s.config.pages = config.pages

LEMMA UploadedImages ==
  ASSUME TypeOK, NEW e \in Extensions, NEW c \in Contents
  PROVE  LET o == Uploaded(e, c)
         IN  /\ \A s \in o.done \cup o.fails \cup o.dies : AboutImages(s)
             /\ \A s \in o.done :
                  /\ s.config.image = e
                  /\ s.images = [images EXCEPT ![e] = c] \/
                       /\ config.image \in Extensions \ {e}
                       /\ s.images = [[images EXCEPT ![e] = c] EXCEPT ![config.image] = Missing]
<1> DEFINE s1 == SetBytes(Now, e, c)
           s2 == SetImage(s1, e)
           old == config.image
           s4 == SetBytes(s2, old, Missing)
           s3 == IF old \in {NoImage, e} THEN s2 ELSE s4
           s0 == SetBytes(Now, e, Missing)
<1>1. c \in Contents \cup {Missing} /\ Missing \in Contents \cup {Missing} /\ e # NoImage
  BY SiteAssumption DEF NoImage
<1>2. /\ s1 \in States /\ s1.config = config /\ s1.files = files
      /\ s1.images = [images EXCEPT ![e] = c] /\ s1.cache = cache
  BY <1>1, NowType, SetBytesType
<1>3. /\ s0 \in States /\ s0.config = config /\ s0.files = files /\ s0.cache = cache
  <2>1. /\ Now \in States /\ Now.config = config /\ Now.files = files /\ Now.cache = cache
    BY NowType
  <2> QED
    BY <1>1, <2>1, SetBytesType
<1>4. Uploaded(e, c) = Outcomes({s3, s2}, {s0}, {s1, s2})
  BY DEF Uploaded
<1> HIDE DEF s0, s1
<1>5. /\ s2 \in States /\ s2.config.pages = config.pages /\ s2.config.image = e
      /\ s2.files = files /\ s2.images = [images EXCEPT ![e] = c] /\ s2.cache = cache
  BY <1>2, SetImageType
<1> HIDE DEF s2
<1>6. ASSUME old \notin {NoImage, e}
      PROVE  /\ old \in Extensions \ {e}
             /\ s4 \in States /\ s4.config = s2.config
             /\ s4.files = files /\ s4.cache = cache
             /\ s4.images = [s2.images EXCEPT ![old] = Missing]
  <2>1. old \in Extensions
    BY <1>6 DEF TypeOK, Configs
  <2> HIDE DEF old
  <2>2. /\ s4 \in States /\ s4.config = s2.config /\ s4.files = s2.files
        /\ s4.images = [s2.images EXCEPT ![old] = Missing] /\ s4.cache = s2.cache
    <3>1. s2 \in States /\ old \in Extensions /\ Missing \in Contents \cup {Missing}
      BY <1>1, <1>5, <2>1
    <3> QED
      BY ONLY <3>1, SetBytesType
  <2> QED
    BY <1>5, <1>6, <2>1, <2>2
<1> HIDE DEF s4
<1>7. s3 = s2 \/ (old \notin {NoImage, e} /\ s3 = s4)
  OBVIOUS
<1> HIDE DEF s3
<1>8. AboutImages(s0) /\ AboutImages(s1) /\ AboutImages(s2)
  BY <1>2, <1>3, <1>5 DEF AboutImages
<1>9. AboutImages(s3)
  BY <1>5, <1>6, <1>7, <1>8 DEF AboutImages
<1>10. ASSUME NEW s \in {s3, s2}
       PROVE  /\ s.config.image = e
              /\ s.images = [images EXCEPT ![e] = c] \/
                   /\ old \in Extensions \ {e}
                   /\ s.images = [[images EXCEPT ![e] = c] EXCEPT ![old] = Missing]
  BY <1>5, <1>6, <1>7
<1> QED
  BY <1>4, <1>8, <1>9, <1>10 DEF Outcomes

LEMMA RemovedImages ==
  ASSUME TypeOK
  PROVE  /\ \A s \in Removed.done \cup Removed.fails \cup Removed.dies : AboutImages(s)
         /\ \A s \in Removed.done :
              /\ s.config.image = NoImage
              /\ s.images = images \/
                   /\ config.image \in Extensions
                   /\ s.images = [images EXCEPT ![config.image] = Missing]
<1> DEFINE s1 == SetImage(Now, NoImage)
<1>1. /\ s1 \in States /\ s1.config.pages = config.pages /\ s1.config.image = NoImage
      /\ s1.files = files /\ s1.images = images /\ s1.cache = cache
  BY NowType, SetImageType
<1>2. Removed = Outcomes({s1} \cup {SetBytes(s1, e, Missing) : e \in {config.image} \cap Extensions},
                         {Now}, {s1})
  BY DEF Removed
<1> HIDE DEF s1
<1>3. ASSUME NEW e \in {config.image} \cap Extensions
      PROVE  LET s == SetBytes(s1, e, Missing)
             IN  /\ AboutImages(s) /\ s.config.image = NoImage
                 /\ s.images = [images EXCEPT ![config.image] = Missing]
  BY <1>1, SetBytesType DEF AboutImages
<1>4. AboutImages(s1) /\ AboutImages(Now)
  BY <1>1, NowType DEF AboutImages
<1>5. \A s \in Removed.done :
        s = s1 \/ \E e \in {config.image} \cap Extensions : s = SetBytes(s1, e, Missing)
  BY <1>2 DEF Outcomes
<1>6. Removed.fails = {Now} /\ Removed.dies = {s1}
  BY <1>2 DEF Outcomes
<1>7. \A s \in Removed.done :
        \/ s = s1
        \/ /\ config.image \in Extensions
           /\ AboutImages(s) /\ s.config.image = NoImage
           /\ s.images = [images EXCEPT ![config.image] = Missing]
  <2> SUFFICES ASSUME NEW s \in Removed.done, s # s1
               PROVE  /\ config.image \in Extensions
                      /\ AboutImages(s) /\ s.config.image = NoImage
                      /\ s.images = [images EXCEPT ![config.image] = Missing]
    OBVIOUS
  <2>1. PICK e \in {config.image} \cap Extensions : s = SetBytes(s1, e, Missing)
    BY <1>5
  <2>2. /\ AboutImages(s) /\ s.config.image = NoImage
        /\ s.images = [images EXCEPT ![config.image] = Missing]
    BY <1>3, <2>1
  <2>3. config.image \in Extensions
    BY <2>1
  <2> QED
    BY <2>2, <2>3
<1>8. \A s \in Removed.done \cup Removed.fails \cup Removed.dies : AboutImages(s)
  BY ONLY <1>4, <1>6, <1>7
<1>9. ASSUME NEW s \in Removed.done
      PROVE  /\ s.config.image = NoImage
             /\ s.images = images \/
                  /\ config.image \in Extensions
                  /\ s.images = [images EXCEPT ![config.image] = Missing]
  <2>1. CASE s = s1
    BY <1>1, <2>1
  <2>2. CASE s # s1
    BY <1>7, <2>2
  <2> QED
    BY <2>1, <2>2
<1> QED
  BY <1>8, <1>9

\* After an image request: the tracker stays between the image in use and all files
LEMMA ImageUsage ==
  ASSUME IInv, NEW s, AboutImages(s), NEW i, i = ImageBytes', i \in Nat,
         NEW a, a = AssetBytes(s.images),
         NEW d \in Int, Adjusted(s, d + IndexDelta(s)),
         d = i - ImageBytes,
         ~ loose' => ~ loose /\ i - ImageBytes <= a - AssetBytes(images)
  PROVE  used' \in Nat /\ UsageIsExact'
<1> DEFINE x == IndexBytes(s.config)
           x0 == IndexBytes(config)
           n == PageBytes(files)
           a0 == AssetBytes(images)
<1>1. /\ config' = s.config /\ files' = files /\ images' = s.images
      /\ used' = IF used + (d + (x - x0)) < 0 THEN 0 ELSE used + (d + (x - x0))
      /\ up' = up
  BY DEF Adjusted, Becomes, AboutImages, IndexDelta
<1>2. x \in Nat /\ a \in Nat
  BY IndexType, AssetBytesType DEF AboutImages, States
<1>3. /\ x0 \in Nat /\ n \in Nat /\ a0 \in Nat /\ ImageBytes \in Nat /\ used \in Nat
  BY BoundsType DEF IInv, TypeOK
<1>4. /\ CountedBytes' = x + n + i
      /\ DiskBytes(config, files, images)' = x + n + a
      /\ CountedBytes = x0 + n + ImageBytes
      /\ DiskBytes(config, files, images) = x0 + n + a0
  BY <1>1 DEF CountedBytes, DiskBytes
<1>5. up /\ ~ loose => used \in CountedBytes .. DiskBytes(config, files, images)
  BY DEF IInv, UsageIsExact
<1>6. d \in Int /\ i \in Nat /\ d = i - ImageBytes
  OBVIOUS
<1>7. up' /\ ~ loose' => up /\ ~ loose /\ i - ImageBytes <= a - a0
  BY <1>1
<1> HIDE DEF x, x0, n, a0
<1>8. used' \in Nat
  <2>1. used + (d + (x - x0)) \in Int
    BY ONLY <1>2, <1>3, <1>6
  <2> QED
    BY ONLY <1>1, <2>1
<1>9. up' /\ ~ loose' => used' \in CountedBytes' .. DiskBytes(config, files, images)'
  <2> SUFFICES ASSUME up', ~ loose'
               PROVE  used' \in CountedBytes' .. DiskBytes(config, files, images)'
    OBVIOUS
  <2>1. used >= x0 + n + ImageBytes /\ used <= x0 + n + a0
    BY ONLY <1>3, <1>4, <1>5, <1>7, up', ~ loose'
  <2>2. used' = used + (d + (x - x0))
    BY ONLY <1>1, <1>2, <1>3, <1>6, <2>1
  <2>3. used' >= x + n + i /\ used' <= x + n + a
    BY ONLY <1>2, <1>3, <1>6, <1>7, up', ~ loose', <2>1, <2>2
  <2> QED
    BY ONLY <1>2, <1>3, <1>4, <1>6, <1>8, <2>3
<1> QED
  BY <1>8, <1>9 DEF UsageIsExact

LEMMA UploadImageKeeps ==
  ASSUME IInv, NEW e \in Extensions, UploadImage(e)
  PROVE  IInv'
<1>1. TypeOK /\ up /\ images \in Images /\ UNCHANGED <<listed, revived>>
  BY DEF UploadImage, IInv, TypeOK, Images
<1>2. PICK c \in Contents :
        \/ /\ \E s \in Uploaded(e, c).done : Adjusted(s, c - ImageBytes + IndexDelta(s))
           /\ loose' = (loose \/ e \in Orphans)
        \/ Fails(Uploaded(e, c))
  BY DEF UploadImage
<1> DEFINE o == Uploaded(e, c)
<1>3. /\ \A s \in o.done \cup o.fails \cup o.dies : AboutImages(s)
      /\ \A s \in o.done :
           /\ s.config.image = e
           /\ s.images = [images EXCEPT ![e] = c] \/
                /\ config.image \in Extensions \ {e}
                /\ s.images = [[images EXCEPT ![e] = c] EXCEPT ![config.image] = Missing]
  BY <1>1, UploadedImages
<1>4. c \in Nat /\ Bytes(c) = c /\ c \in Contents \cup {Missing} /\ Bytes(Missing) = 0
  BY SiteAssumption DEF Bytes, Missing
<1>5. ImageBytes \in Nat /\ AssetBytes(images) \in Nat
  BY <1>1, BoundsType
<1>6. CASE /\ \E s \in o.done : Adjusted(s, c - ImageBytes + IndexDelta(s))
           /\ loose' = (loose \/ e \in Orphans)
  <2>1. PICK s \in o.done : Adjusted(s, c - ImageBytes + IndexDelta(s))
    BY <1>6
  <2>2. /\ AboutImages(s) /\ s.config.image = e
        /\ s.images = [images EXCEPT ![e] = c] \/
             /\ config.image \in Extensions \ {e}
             /\ s.images = [[images EXCEPT ![e] = c] EXCEPT ![config.image] = Missing]
    BY <1>3
  <2>3. config' = s.config /\ images' = s.images /\ up' = up /\ Becomes(s) /\ s \in States
    BY <2>1, <2>2 DEF Adjusted, Becomes, AboutImages
  <2>4. s.images[e] = c
    BY <1>1, <2>2 DEF Images
  <2>5. e # NoImage
    BY SiteAssumption DEF NoImage
  <2>6. ImageBytes' = c
    BY <1>4, <2>2, <2>3, <2>4, <2>5 DEF ImageBytes
  <2> DEFINE ims == [images EXCEPT ![e] = c]
             a == AssetBytes(s.images)
  <2>7. ims \in Images /\ ims[e] = c /\ \A k \in Extensions \ {e} : ims[k] = images[k]
    BY <1>1, <1>4 DEF Images
  <2> HIDE DEF ims
  <2>8. AssetBytes(ims) = AssetBytes(images) + c - Bytes(images[e])
    <3>1. AssetBytes(ims) = AssetBytes(images) + Bytes(ims[e]) - Bytes(images[e])
      BY <1>1, <2>7, AssetBytesChange
    <3> QED
      BY <1>4, <2>7, <3>1
  <2>9. Bytes(images[e]) \in Nat
    BY <1>1, BytesType DEF Images
  <2>10. a = AssetBytes(ims) \/
           /\ config.image \in Extensions \ {e}
           /\ a = AssetBytes(ims) - ImageBytes
    <3>1. CASE s.images = ims
      BY <3>1
    <3>2. CASE /\ config.image \in Extensions \ {e}
               /\ s.images = [ims EXCEPT ![config.image] = Missing]
      <4> DEFINE old == config.image
      <4>1. s.images \in Images
        BY <2>2 DEF AboutImages, States
      <4>2. s.images[old] = Missing /\ \A k \in Extensions \ {old} : s.images[k] = ims[k]
        BY <2>7, <3>2 DEF Images
      <4>3. a = AssetBytes(ims) + Bytes(s.images[old]) - Bytes(ims[old])
        BY <2>7, <3>2, <4>1, <4>2, AssetBytesChange
      <4>4. old # NoImage
        BY <3>2, SiteAssumption DEF NoImage
      <4>5. Bytes(ims[old]) = ImageBytes
        BY <2>7, <3>2, <4>4 DEF ImageBytes
      <4>6. Bytes(s.images[old]) = 0
        BY <1>4, <4>2
      <4>7. AssetBytes(ims) \in Nat
        BY <2>7, AssetBytesType
      <4> HIDE DEF a
      <4> QED
        BY <1>5, <3>2, <4>3, <4>5, <4>6, <4>7
    <3> QED
      BY <2>2, <3>1, <3>2 DEF ims
  <2>11. ~ loose' => ~ loose /\ c - ImageBytes <= a - AssetBytes(images)
    <3> SUFFICES ASSUME ~ loose' PROVE ~ loose /\ c - ImageBytes <= a - AssetBytes(images)
      OBVIOUS
    <3>1. ~ loose /\ (e = config.image \/ images[e] = Missing)
      BY <1>6 DEF Orphans
    <3>2. e = config.image => Bytes(images[e]) = ImageBytes
      BY <2>5 DEF ImageBytes
    <3>3. images[e] = Missing => Bytes(images[e]) = 0
      BY <1>4
    <3> HIDE DEF a
    <3>4. CASE e = config.image
      BY <1>4, <1>5, <2>8, <2>9, <2>10, <3>1, <3>2, <3>4
    <3>5. CASE images[e] = Missing
      BY <1>4, <1>5, <2>8, <2>9, <2>10, <3>1, <3>3, <3>5
    <3> QED
      BY <3>1, <3>4, <3>5
  <2>12. used' \in Nat /\ UsageIsExact'
    <3>1. c - ImageBytes \in Int
      BY <1>4, <1>5
    <3> HIDE DEF a
    <3>2. a = AssetBytes(s.images)
      BY DEF a
    <3> QED
      BY <1>4, <2>1, <2>2, <2>6, <2>11, <3>1, <3>2, ImageUsage
  <2>13. up' \in BOOLEAN /\ loose' \in BOOLEAN
    BY <1>1, <1>6, <2>3 DEF TypeOK
  <2> QED
    BY <1>1, <2>2, <2>3, <2>12, <2>13, ImageStepKeeps DEF AboutImages
<1>7. CASE Fails(o)
  <2>1. /\ used' \in Nat /\ loose' \in BOOLEAN /\ up' \in BOOLEAN /\ UsageIsExact'
        /\ \/ up' /\ \E s \in o.fails : Becomes(s)
           \/ ~ up' /\ \E s \in o.dies : Becomes(s)
    BY <1>1, <1>7, FailureUsage
  <2>2. PICK s \in o.fails \cup o.dies : Becomes(s) /\ AboutImages(s)
    BY <1>3, <2>1
  <2> QED
    BY <1>1, <2>1, <2>2, ImageStepKeeps DEF AboutImages
<1> QED
  BY <1>2, <1>6, <1>7

LEMMA RemoveImageKeeps ==
  ASSUME IInv, RemoveImage
  PROVE  IInv'
<1>1. TypeOK /\ up /\ images \in Images /\ UNCHANGED <<listed, revived>>
  BY DEF RemoveImage, IInv, TypeOK, Images
<1>2. \/ /\ \E s \in Removed.done : Adjusted(s, IndexDelta(s) - ImageBytes)
         /\ UNCHANGED loose
      \/ Fails(Removed)
  BY DEF RemoveImage
<1>3. /\ \A s \in Removed.done \cup Removed.fails \cup Removed.dies : AboutImages(s)
      /\ \A s \in Removed.done :
           /\ s.config.image = NoImage
           /\ s.images = images \/
                /\ config.image \in Extensions
                /\ s.images = [images EXCEPT ![config.image] = Missing]
  BY <1>1, RemovedImages
<1>4. ImageBytes \in Nat /\ AssetBytes(images) \in Nat /\ Bytes(Missing) = 0
      /\ ImageBytes <= AssetBytes(images)
  BY <1>1, BoundsType DEF Bytes, Missing
<1>5. CASE /\ \E s \in Removed.done : Adjusted(s, IndexDelta(s) - ImageBytes)
           /\ UNCHANGED loose
  <2>1. PICK s \in Removed.done : Adjusted(s, IndexDelta(s) - ImageBytes)
    BY <1>5
  <2>2. /\ AboutImages(s) /\ s.config.image = NoImage
        /\ s.images = images \/
             /\ config.image \in Extensions
             /\ s.images = [images EXCEPT ![config.image] = Missing]
    BY <1>3
  <2>3. config' = s.config /\ images' = s.images /\ up' = up /\ Becomes(s) /\ s \in States
    BY <2>1, <2>2 DEF Adjusted, Becomes, AboutImages
  <2>4. ImageBytes' = 0
    BY <2>2, <2>3 DEF ImageBytes
  <2> DEFINE a == AssetBytes(s.images)
  <2>5. a >= AssetBytes(images) - ImageBytes
    <3>1. CASE s.images = images
      BY <1>4, <3>1
    <3>2. CASE /\ config.image \in Extensions
               /\ s.images = [images EXCEPT ![config.image] = Missing]
      <4> DEFINE old == config.image
      <4>1. s.images \in Images
        BY <2>2 DEF AboutImages, States
      <4>2. s.images[old] = Missing /\ \A k \in Extensions \ {old} : s.images[k] = images[k]
        BY <1>1, <3>2 DEF Images
      <4>3. a = AssetBytes(images) + Bytes(s.images[old]) - Bytes(images[old])
        BY <1>1, <3>2, <4>1, <4>2, AssetBytesChange
      <4>4. Bytes(images[old]) = ImageBytes
        BY <3>2, SiteAssumption DEF ImageBytes, NoImage
      <4>5. Bytes(s.images[old]) = 0
        BY <1>4, <4>2
      <4> HIDE DEF a
      <4> QED
        BY <1>4, <4>3, <4>4, <4>5
    <3> QED
      BY <2>2, <3>1, <3>2
  <2>6. IndexDelta(s) - ImageBytes = (0 - ImageBytes) + IndexDelta(s)
    <3>1. IndexBytes(s.config) \in Nat /\ IndexBytes(config) \in Nat
      BY <1>1, <2>2, IndexType, BoundsType DEF AboutImages, States
    <3> QED
      BY <1>4, <3>1 DEF IndexDelta
  <2>7. used' \in Nat /\ UsageIsExact'
    <3>1. Adjusted(s, (0 - ImageBytes) + IndexDelta(s)) /\ 0 - ImageBytes \in Int
      BY <1>4, <2>1, <2>6
    <3>2. a \in Nat
      BY <2>2, AssetBytesType DEF AboutImages, States
    <3> HIDE DEF a
    <3>3. ~ loose' => ~ loose /\ 0 - ImageBytes <= a - AssetBytes(images)
      BY <1>4, <1>5, <2>5, <3>2
    <3>4. a = AssetBytes(s.images) /\ 0 \in Nat
      BY DEF a
    <3> QED
      BY <2>2, <2>4, <3>1, <3>3, <3>4, ImageUsage
  <2>8. up' \in BOOLEAN /\ loose' \in BOOLEAN
    BY <1>1, <1>5, <2>3 DEF TypeOK
  <2> QED
    BY <1>1, <2>2, <2>3, <2>7, <2>8, ImageStepKeeps DEF AboutImages
<1>6. CASE Fails(Removed)
  <2>1. /\ used' \in Nat /\ loose' \in BOOLEAN /\ up' \in BOOLEAN /\ UsageIsExact'
        /\ \/ up' /\ \E s \in Removed.fails : Becomes(s)
           \/ ~ up' /\ \E s \in Removed.dies : Becomes(s)
    BY <1>1, <1>6, FailureUsage
  <2>2. PICK s \in Removed.fails \cup Removed.dies : Becomes(s) /\ AboutImages(s)
    BY <1>3, <2>1
  <2> QED
    BY <1>1, <2>1, <2>2, ImageStepKeeps DEF AboutImages
<1> QED
  BY <1>2, <1>5, <1>6

\* Startup makes the rows from the files and measures the disk
LEMMA RestartKeeps ==
  ASSUME IInv, Restart
  PROVE  IInv'
<1>1. /\ TypeOK /\ up' = TRUE /\ cache' = Rebuilt(config, files)
      /\ used' = DiskBytes(config, files, images) /\ loose' = FALSE
      /\ UNCHANGED <<config, files, images, listed, revived>>
  BY DEF IInv, Restart
<1>2. Rebuilt(config, files) \in Rows
  <2> SUFFICES ASSUME NEW p \in Pages, files[p] # Missing
               PROVE  files[p] \in Contents \cup {NoRow, Torn}
    BY DEF Rebuilt, Rows
  <2> QED
    BY <1>1 DEF TypeOK
<1>3. /\ CountedBytes \in Nat /\ DiskNow \in Nat /\ CountedBytes <= DiskNow
      /\ DiskNow = DiskBytes(config, files, images)
  BY <1>1, BoundsType DEF DiskNow
<1>4. TypeOK'
  BY <1>1, <1>2, <1>3 DEF TypeOK, Rows
<1>5. FilesThere'
  BY <1>1 DEF IInv, FilesThere, FilePages
<1>6. PagesServedFromFiles'
  <2> SUFFICES ASSUME NEW p \in (DOMAIN config.pages) \cap FilePages, p \notin revived
               PROVE  files[p] # Missing /\ cache'[p] = files[p]
    BY <1>1 DEF PagesServedFromFiles, Served, FilePages
  <2>1. files[p] # Missing
    BY DEF IInv, FilesThere
  <2>2. p \in Pages
    BY DEF FilePages
  <2> QED
    BY <1>1, <2>1, <2>2 DEF Rebuilt
<1>7. UsageIsExact'
  <2>1. CountedBytes' = CountedBytes
    BY <1>1 DEF CountedBytes, ImageBytes
  <2>2. DiskBytes(config, files, images)' = DiskBytes(config, files, images)
    BY <1>1
  <2>3. used' \in CountedBytes .. DiskNow
    BY <1>1, <1>3
  <2> QED
    BY <1>3, <2>1, <2>2, <2>3 DEF UsageIsExact
<1> QED
  BY <1>4, <1>5, <1>6, <1>7 DEF IInv

LEMMA ListPagesKeeps ==
  ASSUME IInv, ListPages
  PROVE  IInv'
<1>1. /\ TypeOK /\ up /\ listed' = config.pages
      /\ UNCHANGED <<config, files, images, cache, used, up, loose, revived>>
  BY DEF IInv, ListPages, site
<1>2. TypeOK'
  BY <1>1, ConfigType DEF TypeOK
<1>3. FilesThere' /\ PagesServedFromFiles'
  BY <1>1, OtherStepServes
<1>4. UsageIsExact'
  BY <1>1 DEF IInv, UsageIsExact, CountedBytes, ImageBytes
<1> QED
  BY <1>2, <1>3, <1>4 DEF IInv

LEMMA UpdateSettingsKeeps ==
  ASSUME IInv, UpdateSettings
  PROVE  IInv'
<1>1. TypeOK /\ up /\ UNCHANGED <<listed, revived>>
  BY DEF IInv, UpdateSettings
<1>2. PICK t \in Titles :
        LET s == [Now EXCEPT !.config.title = t]
        IN  \/ Adjusted(s, IndexDelta(s)) /\ UNCHANGED loose
            \/ Fails(Outcomes({}, {Now}, {s}))
  BY DEF UpdateSettings
<1> DEFINE cfg == [config EXCEPT !.title = t]
           s == [Now EXCEPT !.config.title = t]
<1>3. cfg \in Configs /\ cfg.pages = config.pages /\ cfg.image = config.image
  BY <1>1 DEF TypeOK, Configs
<1>4. s = [Now EXCEPT !.config = cfg]
  BY NowType, <1>1
<1>5. \/ Adjusted(s, IndexDelta(s)) /\ UNCHANGED loose
      \/ Fails(Outcomes({}, {Now}, {s}))
  BY <1>2
<1> HIDE DEF cfg, s
<1>6. /\ s \in States /\ s.config = cfg /\ s.files = files
      /\ s.images = images /\ s.cache = cache
  BY <1>1, <1>3, <1>4, NowType DEF States
<1>7. config'.pages = config.pages
  <2>1. config' = cfg \/ config' = config
    BY <1>1, <1>5, <1>6, NowType DEF Adjusted, Fails, Becomes, Outcomes
  <2> QED
    BY <1>3, <2>1
<1>8. revived' \subseteq Pages
  BY <1>1 DEF TypeOK
<1> QED
  BY <1>1, <1>3, <1>5, <1>6, <1>7, <1>8, IndexStepKeeps

\* The whole list is replaced by the one the tab saw
LEMMA UpdateOrderKeeps ==
  ASSUME IInv, UpdateOrder
  PROVE  IInv'
<1> DEFINE s == SetPages(Now, listed)
<1>1. /\ TypeOK /\ up /\ listed' = listed
      /\ revived' = revived \cup ((DOMAIN config'.pages) \ (DOMAIN config.pages))
      /\ \/ Adjusted(s, IndexDelta(s)) /\ UNCHANGED loose
         \/ Fails(Outcomes({}, {Now}, {s}))
  BY DEF IInv, UpdateOrder
<1>2. /\ listed \in PageLists /\ DOMAIN listed \subseteq Pages
      /\ revived \subseteq Pages /\ DOMAIN config.pages \subseteq Pages
  BY <1>1, ConfigType DEF TypeOK, PageLists
<1>3. /\ s \in States /\ s.config.pages = listed /\ s.config.image = config.image
      /\ s.files = files /\ s.images = images /\ s.cache = cache
  BY <1>1, <1>2, RelistedType
<1> HIDE DEF s
<1>4. config'.pages = listed \/ config'.pages = config.pages
  BY <1>1, <1>3, NowType DEF Adjusted, Fails, Becomes, Outcomes
<1>5. revived' \subseteq Pages
  BY <1>1, <1>2, <1>4
<1> QED
  BY <1>1, <1>3, <1>5, IndexStepKeeps

LEMMA PageActionsKeep ==
  ASSUME IInv, NEW p \in Pages,
         CreatePage(p) \/ RenamePage(p) \/ EditPage(p) \/ DeletePage(p)
  PROVE  IInv'
<1>1. TypeOK
  BY DEF IInv
<1>2. CASE CreatePage(p)
  <2>1. /\ up /\ p \in FilePages \ (DOMAIN config.pages)
        /\ revived' = revived \ ((DOMAIN config'.pages) \cap {p}) /\ UNCHANGED listed
    BY <1>2 DEF CreatePage
  <2>2. PICK t \in Titles, c \in Contents : PageRequest(p, Created(p, t, c))
    BY <1>2 DEF CreatePage
  <2>3. Sound(Created(p, t, c), p)
    BY <1>1, <2>1, CreatedSound
  <2>4. revived' = revived \/ (p \notin DOMAIN config.pages /\ revived' = revived \ {p})
    BY <2>1
  <2>5. \/ \E s \in Created(p, t, c).done : Adjusted(s, PageDelta(s, p)) /\ UNCHANGED loose
        \/ Fails(Created(p, t, c))
    BY <2>2 DEF PageRequest
  <2> QED
    BY <2>1, <2>3, <2>4, <2>5, PageRequestKeeps
<1>3. CASE RenamePage(p)
  <2>1. up /\ p \in DOMAIN config.pages /\ UNCHANGED <<listed, revived>>
    BY <1>3 DEF RenamePage
  <2>2. PICK t \in Titles : PageRequest(p, Renamed(p, t))
    BY <1>3 DEF RenamePage
  <2>3. Sound(Renamed(p, t), p)
    BY <1>1, <2>1, RenamedSound
  <2>4. \/ \E s \in Renamed(p, t).done : Adjusted(s, PageDelta(s, p)) /\ UNCHANGED loose
        \/ Fails(Renamed(p, t))
    BY <2>2 DEF PageRequest
  <2> QED
    BY <2>1, <2>3, <2>4, PageRequestKeeps
<1>4. CASE EditPage(p)
  <2>1. /\ up /\ p \in (DOMAIN config.pages) \cap FilePages /\ files[p] # Missing
        /\ UNCHANGED <<listed, revived>>
    BY <1>4 DEF EditPage
  <2>2. PICK t \in Titles, c \in Contents : PageRequest(p, Edited(p, t, c))
    BY <1>4 DEF EditPage
  <2>3. Sound(Edited(p, t, c), p)
    BY <1>1, <2>1, EditedSound
  <2>4. \/ \E s \in Edited(p, t, c).done : Adjusted(s, PageDelta(s, p)) /\ UNCHANGED loose
        \/ Fails(Edited(p, t, c))
    BY <2>2 DEF PageRequest
  <2> QED
    BY <2>1, <2>3, <2>4, PageRequestKeeps
<1>5. CASE DeletePage(p)
  <2>1. /\ up /\ p \in (DOMAIN config.pages) \ BuiltinPages
        /\ UNCHANGED <<listed, revived>>
    BY <1>5 DEF DeletePage
  <2>2. PICK deleteFile \in BOOLEAN :
          \/ \E s \in Deleted(p, deleteFile).done :
               Adjusted(s, PageDelta(s, p)) /\ UNCHANGED loose
          \/ Fails(Deleted(p, deleteFile))
    BY <1>5 DEF DeletePage
  <2>3. Sound(Deleted(p, deleteFile), p)
    BY <1>1, <2>1, DeletedSound
  <2> QED
    BY <2>1, <2>2, <2>3, PageRequestKeeps
<1> QED
  BY <1>2, <1>3, <1>4, <1>5

-----------------------------------------------------------------------------
LEMMA InitIInv == Init => IInv
<1> SUFFICES ASSUME Init PROVE IInv
  OBVIOUS
<1> DEFINE t == CHOOSE t \in Titles : TRUE
           list == [p \in BuiltinPages |-> t]
<1>1. t \in Titles
  BY SiteAssumption
<1>2. list \in PageLists
  <2>1. list \in [BuiltinPages -> Titles] /\ BuiltinPages \in SUBSET Pages
    BY <1>1, SiteAssumption
  <2> QED
    BY <2>1 DEF PageLists
<1>3. /\ config = [title |-> t, image |-> NoImage, pages |-> list]
      /\ listed = config.pages
  BY DEF Init
<1> HIDE DEF t, list
<1>4. config \in Configs /\ config.pages = list /\ config.image = NoImage
  BY <1>1, <1>2, <1>3 DEF Configs
<1>5. /\ files = [p \in Pages |-> Missing] /\ images = [e \in Extensions |-> Missing]
      /\ cache = [p \in Pages |-> NoRow] /\ up = TRUE /\ loose = FALSE /\ revived = {}
      /\ used = DiskBytes(config, files, images)
  BY DEF Init
<1>6. files \in Files /\ images \in Images /\ cache \in Rows
  BY <1>5 DEF Files, Images, Rows
<1>7. IndexBytes(config) \in Nat /\ PageBytes(files) \in Nat /\ AssetBytes(images) \in Nat
  BY <1>4, <1>6, IndexType, PageBytesType, AssetBytesType
<1>8. used \in Nat
  BY <1>5, <1>7 DEF DiskBytes
<1>9. TypeOK
  BY <1>2, <1>3, <1>4, <1>5, <1>6, <1>8 DEF TypeOK, Files, Images, Rows
<1>10. (DOMAIN config.pages) \cap FilePages = {}
  BY <1>4 DEF FilePages, list
<1>11. FilesThere /\ PagesServedFromFiles
  BY <1>10 DEF FilesThere, PagesServedFromFiles
<1>12. /\ CountedBytes \in Nat /\ DiskNow \in Nat /\ CountedBytes <= DiskNow
       /\ DiskNow = DiskBytes(config, files, images)
  BY <1>9, BoundsType DEF DiskNow
<1>13. UsageIsExact
  BY <1>5, <1>12 DEF UsageIsExact
<1> QED
  BY <1>9, <1>11, <1>13 DEF IInv

LEMMA NextIInv == IInv /\ [Next]_vars => IInv'
<1> SUFFICES ASSUME IInv, [Next]_vars PROVE IInv'
  OBVIOUS
<1>1. CASE UpdateSettings
  BY <1>1, UpdateSettingsKeeps
<1>2. CASE ListPages
  BY <1>2, ListPagesKeeps
<1>3. CASE UpdateOrder
  BY <1>3, UpdateOrderKeeps
<1>4. ASSUME NEW p \in Pages, CreatePage(p) \/ RenamePage(p) \/ EditPage(p) \/ DeletePage(p)
      PROVE  IInv'
  BY <1>4, PageActionsKeep
<1>5. ASSUME NEW e \in Extensions, UploadImage(e) PROVE IInv'
  BY <1>5, UploadImageKeeps
<1>6. CASE RemoveImage
  BY <1>6, RemoveImageKeeps
<1>7. CASE Restart
  BY <1>7, RestartKeeps
<1>8. CASE UNCHANGED vars
  <2>1. UNCHANGED <<config, files, images, cache, used, up, listed, loose, revived>>
    BY <1>8 DEF vars, site
  <2>2. TypeOK' /\ FilesThere'
    BY <2>1 DEF IInv, TypeOK, FilesThere, FilePages
  <2>3. PagesServedFromFiles'
    BY <2>1 DEF IInv, PagesServedFromFiles, Served, FilePages
  <2>4. UsageIsExact'
    BY <2>1 DEF IInv, UsageIsExact, CountedBytes, ImageBytes
  <2> QED
    BY <2>2, <2>3, <2>4 DEF IInv
<1> QED
  BY <1>1, <1>2, <1>3, <1>4, <1>5, <1>6, <1>7, <1>8 DEF Next

LEMMA InvariantHolds == Spec => []IInv
<1>1. Init => IInv
  BY InitIInv
<1>2. IInv /\ [Next]_vars => IInv'
  BY NextIInv
<1> QED
  BY <1>1, <1>2, PTL DEF Spec

\* The variables keep their types: the list in index.toml and the list a tab saw
\* are lists of pages, and the tracker never goes below zero.
THEOREM TypesHold == Spec => []TypeOK
<1>1. IInv => TypeOK
  BY DEF IInv
<1> QED
  BY <1>1, InvariantHolds, PTL

\* A running server shows each file-backed page of the list as its file has it,
\* whichever write of which request failed and wherever the server died, except a
\* file a failed write tore or a page an outdated order put back: get_page after
\* create_page, update_page, delete_page, update_page_order and rebuild_cache.
THEOREM ReadersSeeFiles == Spec => []PagesServedFromFiles
<1>1. IInv => PagesServedFromFiles
  BY DEF IInv
<1> QED
  BY <1>1, InvariantHolds, PTL

\* The tracker of the content size equals the disk but for image files left behind,
\* unless a request failed, or an upload met such a file, since the disk was last
\* measured: the sizes the page, image and settings handlers add and subtract are
\* what the disk grew and shrank by.
THEOREM TrackerFollowsDisk == Spec => []UsageIsExact
<1>1. IInv => UsageIsExact
  BY DEF IInv
<1> QED
  BY <1>1, InvariantHolds, PTL
=============================================================================
