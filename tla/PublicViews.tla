----------------------------- MODULE PublicViews -----------------------------
(***************************************************************************)
(* What readers see of the content store: the lists that name posts and    *)
(* the two ways to open one by its name, as a page and over the API.       *)
(* Every view reads the cache; the names it is asked for may be symlinks   *)
(* that a rename left on the disk.                                         *)
(***************************************************************************)
EXTENDS ContentStore, TLC

Nothing == NoName

IsPublic(n) == cache[n] # NoPost /\ ~ cache[n].draft

\* The lists for readers: feed.xml, sitemap.xml, the homepage, the posts of a
\* label and the search results all show the published rows
FeedItems == {n \in Names : IsPublic(n)}
SitemapPosts == {n \in Names : IsPublic(n)}
HomepagePosts == {n \in Names : IsPublic(n)}
LabelPosts(t) == {n \in Names : IsPublic(n) /\ cache[n].title = t}
SearchHits(t) == {n \in Names : IsPublic(n) /\ cache[n].title = t}

Listed == FeedItems \cup SitemapPosts \cup HomepagePosts
            \cup UNION {LabelPosts(t) \cup SearchHits(t) : t \in Titles}

\* _resolve_symlink_redirect: where a name leads, when its file is there and
\* the way goes over a symlink
SymlinkTarget(n) ==
  LET w == Target(disk, n)
  IN  IF w # n /\ w \in disk.dirs /\ disk.post[w] # NoPost THEN w ELSE Nothing

\* Mutant: the redirect is followed whether or not there is a row
PostRouteBlind(n) ==
  LET w == SymlinkTarget(n)
  IN  IF w # Nothing THEN w ELSE IF IsPublic(n) THEN n ELSE Nothing

\* GET /post/<name>: the redirect is tried before the row
PostRoute(n) ==
  LET w == SymlinkTarget(n)
  IN  IF w # Nothing /\ IsPublic(w) THEN w ELSE IF IsPublic(n) THEN n ELSE Nothing

\* GET /api/posts/<name> for a reader: the row is tried before the redirect
GetPost(n) ==
  LET w == SymlinkTarget(n)
  IN  IF IsPublic(n) THEN n ELSE IF w # Nothing /\ IsPublic(w) THEN w ELSE Nothing

\* Mutant: drafts are looked up under the name asked for
ServedAssetsByName(n) ==
  LET w == Target(disk, n)
  IN  IF w \notin disk.dirs \/ (cache[n] # NoPost /\ cache[n].draft) THEN {}
      ELSE disk.assets[w]

\* GET /post/<name>/<asset> and /api/content: the file the symlinks lead to,
\* for a reader unless the row of its directory is a draft
ServedAssets(n) ==
  LET w == Target(disk, n)
  IN  IF w \notin disk.dirs \/ (cache[w] # NoPost /\ cache[w].draft) THEN {}
      ELSE disk.assets[w]
\* Assets are alike, and so are titles
Symmetry == Permutations(AssetNames) \cup Permutations(Titles)
-----------------------------------------------------------------------------
\* Every post a list names opens under that name, in both views
ListedPostsOpen ==
  up => \A n \in Listed : PostRoute(n) = n /\ GetPost(n) = n

\* Every address a post was ever public under leads to it in both views as
\* long as it is public, however often it was renamed since, and to no other
\* post once it is not; excepted are posts a failed request was about, names
\* whose symlink the author was told could not be kept, and posts created
\* under the name of a symlink that led nowhere
OverSymlink(i) == \E n \in Names : cache[n].id = i /\ disk.link[n] # NoName
PermalinksWork ==
  up => \A i \in Ids \ adrift : \A n \in addresses[i] :
          LET now == PublicNames(cache, i)
          IN  IF OverSymlink(i) THEN TRUE ELSE IF now = {} THEN PostRoute(n) = Nothing
              ELSE PostRoute(n) \in now /\ GetPost(n) \in now

\* The assets of a post are served under all those addresses while it is
\* public, and under none of them once it is a draft again
AssetsFollowPost ==
  up => \A n \in Names, i \in Ids \ adrift :
          n \in addresses[i] /\ ~ OverSymlink(i) =>
            IF \E m \in Names : cache[m].id = i /\ ~ cache[m].draft
              THEN ServedAssets(n) = disk.assets[Target(disk, n)]
              ELSE ServedAssets(n) = {}
=============================================================================
