------------------------ MODULE LidarrSessionProofs ------------------------
(***************************************************************************)
(* Theorems about Lidarr and the indexer, for whatever the search backends  *)
(* print, every search, filter and page size, and any number of searches.   *)
(***************************************************************************)
EXTENDS LidarrSession, FiniteSetTheorems, TLAPS

-----------------------------------------------------------------------------
(* Filters.                                                                 *)

(* The place of a position among those that are kept.                       *)
Place(kept, i) == Cardinality({k \in kept : k <= i})

(* Each position that is kept has its place, and each place its position.   *)
LEMMA PlacesAreTaken ==
    ASSUME NEW len \in Nat, NEW kept \in SUBSET (1..len)
    PROVE  /\ Cardinality(kept) \in Nat
           /\ \A i \in kept : Place(kept, i) \in 1..Cardinality(kept)
           /\ \A i, j \in kept : Place(kept, i) = Place(kept, j) => i = j
           /\ \A n \in 1..Cardinality(kept) : \E i \in kept : Place(kept, i) = n
<1>1. IsFiniteSet(kept) /\ Cardinality(kept) \in Nat
  <2>1. IsFiniteSet(1..len)
    BY FS_Interval
  <2>2. IsFiniteSet(kept)
    BY <2>1, FS_Subset
  <2> QED
    BY <2>2, FS_CardinalityType
<1>2. ASSUME NEW i \in kept PROVE Place(kept, i) \in 1..Cardinality(kept)
  <2> DEFINE below == {k \in kept : k <= i}
  <2>1. below \in SUBSET kept /\ i \in below
    BY <1>2
  <2> HIDE DEF below
  <2>2. IsFiniteSet(below) /\ Cardinality(below) <= Cardinality(kept)
    BY <1>1, <2>1, FS_Subset
  <2>3. Cardinality(below) \in Nat /\ Cardinality(below) # 0
    BY <2>1, <2>2, FS_CardinalityType, FS_EmptySet
  <2>4. Cardinality(below) \in 1..Cardinality(kept)
    BY <1>1, <2>2, <2>3
  <2> QED
    BY <2>4 DEF Place, below
<1>3. ASSUME NEW i \in kept, NEW j \in kept, i < j PROVE Place(kept, i) # Place(kept, j)
  <2> DEFINE below(k) == {l \in kept : l <= k}
  <2>1. \A k \in kept : k \in Int /\ (k <= i => k <= j)
    BY <1>3
  <2>2. below(i) \in SUBSET below(j) /\ below(j) \in SUBSET kept
    BY <2>1
  <2>3. j \in below(j) /\ j \notin below(i)
    BY <1>3, <2>1
  <2> HIDE DEF below
  <2>4. IsFiniteSet(below(j))
    BY <1>1, <2>2, FS_Subset
  <2>5. below(i) # below(j)
    BY <2>3
  <2>6. Cardinality(below(i)) # Cardinality(below(j))
    BY <2>2, <2>4, <2>5, FS_Subset
  <2> QED
    BY <2>6 DEF Place, below
<1>4. ASSUME NEW i \in kept, NEW j \in kept, Place(kept, i) = Place(kept, j) PROVE i = j
  <2>1. i < j \/ j < i \/ i = j
    OBVIOUS
  <2> QED
    BY <1>3, <1>4, <2>1
<1> DEFINE place == [i \in kept |-> Place(kept, i)]
<1>5. place \in Injection(kept, 1..Cardinality(kept))
  <2>1. \A i \in kept : place[i] = Place(kept, i)
    OBVIOUS
  <2>2. place \in [kept -> 1..Cardinality(kept)] /\ DOMAIN place = kept
    BY <1>2
  <2> HIDE DEF place
  <2> QED
    BY <1>4, <2>1, <2>2 DEF Injection, IsInjective
<1>6. IsFiniteSet(1..Cardinality(kept)) /\ Cardinality(1..Cardinality(kept)) = Cardinality(kept)
  BY <1>1, FS_Interval
<1>7. place \in Surjection(kept, 1..Cardinality(kept))
  <2> HIDE DEF place
  <2> QED
    BY <1>5, <1>6, FS_Injection
<1>8. \A n \in 1..Cardinality(kept) : \E i \in kept : Place(kept, i) = n
  BY <1>7 DEF Surjection
<1> QED
  BY <1>1, <1>2, <1>4, <1>8

(* A filter gives the elements it keeps, all of them and no other.          *)
LEMMA FilterKeeps ==
    ASSUME NEW s, NEW len \in Nat, NEW kept \in SUBSET (1..len)
    PROVE  /\ Cardinality(kept) \in Nat /\ DOMAIN ElementsAt(s, kept) = 1..Cardinality(kept)
           /\ \A i \in kept : \E n \in 1..Cardinality(kept) : ElementsAt(s, kept)[n] = s[i]
           /\ \A n \in 1..Cardinality(kept) : \E i \in kept : ElementsAt(s, kept)[n] = s[i]
<1> DEFINE At(n) == CHOOSE i \in kept : Cardinality({k \in kept : k <= i}) = n
<1>1. \A n \in 1..Cardinality(kept) : At(n) \in kept /\ Place(kept, At(n)) = n
  <2> SUFFICES ASSUME NEW n \in 1..Cardinality(kept)
               PROVE  At(n) \in kept /\ Place(kept, At(n)) = n
    OBVIOUS
  <2>1. \E i \in kept : Place(kept, i) = n
    BY PlacesAreTaken
  <2> QED
    BY <2>1 DEF Place
<1>2. \A n \in 1..Cardinality(kept) : ElementsAt(s, kept)[n] = s[At(n)]
  BY DEF ElementsAt
<1>3. \A i \in kept : At(Place(kept, i)) = i
  <2> HIDE DEF At
  <2> SUFFICES ASSUME NEW i \in kept PROVE At(Place(kept, i)) = i
    OBVIOUS
  <2>1. Place(kept, i) \in 1..Cardinality(kept)
    BY PlacesAreTaken
  <2>2. At(Place(kept, i)) \in kept /\ Place(kept, At(Place(kept, i))) = Place(kept, i)
    BY <1>1, <2>1
  <2> QED
    BY <2>2, PlacesAreTaken
<1> HIDE DEF At
<1>4. DOMAIN ElementsAt(s, kept) = 1..Cardinality(kept)
  BY DEF ElementsAt
<1> QED
  BY <1>1, <1>2, <1>3, <1>4, PlacesAreTaken

(* What a filter gives is a sequence of the same elements.                  *)
LEMMA FilterGives ==
    ASSUME NEW S, NEW s \in Seq(S), NEW kept \in SUBSET (1..Len(s))
    PROVE  /\ ElementsAt(s, kept) \in Seq(S)
           /\ \A i \in kept : \E n \in 1..Len(ElementsAt(s, kept)) : ElementsAt(s, kept)[n] = s[i]
           /\ \A n \in 1..Len(ElementsAt(s, kept)) : \E i \in kept : ElementsAt(s, kept)[n] = s[i]
<1>1. Len(s) \in Nat /\ \A i \in 1..Len(s) : s[i] \in S
  OBVIOUS
<1> DEFINE e == ElementsAt(s, kept)
           m == Cardinality(kept)
<1>2. /\ m \in Nat /\ DOMAIN e = 1..m
      /\ \A i \in kept : \E n \in 1..m : e[n] = s[i]
      /\ \A n \in 1..m : \E i \in kept : e[n] = s[i]
  BY <1>1, FilterKeeps
<1>3. e = [n \in 1..m |-> e[n]]
  BY <1>2 DEF ElementsAt
<1> HIDE DEF e, m
<1>4. \A n \in 1..m : e[n] \in S
  BY <1>1, <1>2
<1>5. e \in Seq(S) /\ Len(e) = m
  <2>1. e \in [1..m -> S]
    BY <1>2, <1>3, <1>4
  <2> QED
    BY <1>2, <2>1
<1> QED
  BY <1>2, <1>5 DEF e

-----------------------------------------------------------------------------
(* A search.                                                                *)

(* A search that is run finds releases of its lines.                        *)
LEMMA SearchFinds ==
    ASSUME NEW lines \in Seq(Lines) PROVE runSearch(lines) \in Seq(Found)
<1> DEFINE kept == {i \in 1..Len(lines) : lines[i].url # NoName}
           e == ElementsAt(lines, kept)
           m == Cardinality(kept)
<1>1. Len(lines) \in Nat /\ \A i \in 1..Len(lines) : lines[i] \in Lines
  OBVIOUS
<1>2. kept \in SUBSET (1..Len(lines))
  OBVIOUS
<1>3. m \in Nat /\ \A n \in 1..m : \E i \in kept : e[n] = lines[i]
  <2> HIDE DEF kept
  <2> QED
    BY <1>1, <1>2, FilterKeeps
<1>4. \A n \in 1..m : parseSearchLine(e[n]) \in Found
  <2> SUFFICES ASSUME NEW n \in 1..m PROVE parseSearchLine(e[n]) \in Found
    OBVIOUS
  <2>1. PICK i \in kept : e[n] = lines[i]
    BY <1>3
  <2>2. lines[i] \in Lines /\ lines[i].url # NoName
    BY <1>1
  <2> HIDE DEF kept, e
  <2>3. e[n] \in {l \in Lines : l.url # NoName}
    BY <2>1, <2>2
  <2> QED
    BY <2>3 DEF Found
<1>5. runSearch(lines) = [n \in 1..m |-> parseSearchLine(e[n])]
  BY DEF runSearch
<1> HIDE DEF m, e
<1> QED
  BY <1>3, <1>4, <1>5

(* What is shown is something of what was found.                            *)
LEMMA SearchShows ==
    ASSUME NEW how, NEW lines \in Seq(Lines), NEW request
    PROVE  search(how, lines, request) \in Seq(Found)
<1> DEFINE hits == runSearch(lines)
           asked == filterResults(hits, request)
<1>1. hits \in Seq(Found)
  BY SearchFinds
<1> HIDE DEF hits
<1>2. asked \in Seq(Found)
  BY <1>1, FilterGives DEF filterResults
<1> HIDE DEF asked
<1>3. Apply(how, asked, request) \in Seq(Found)
  BY <1>2, FilterGives DEF Apply
<1>4. <<>> \in Seq(Found)
  OBVIOUS
<1> QED
  BY <1>3, <1>4 DEF search, hits, asked

(* A hit that was asked for and is no unwanted variant is shown, or an album *)
(* of its release is, unless each of those albums is such a variant.        *)
LEMMA SearchOffers ==
    ASSUME NEW how, NEW lines \in Seq(Lines), NEW request,
           request.query # NoName, ~SkipQuery(how, request),
           NEW i \in 1..Len(runSearch(lines)),
           matches(runSearch(lines)[i], request),
           how = "off" \/ ~Extra(runSearch(lines)[i], request),
           NEW albums,
           albums = {j \in 1..Len(runSearch(lines)) :
                        /\ matches(runSearch(lines)[j], request)
                        /\ EntityKind(runSearch(lines)[j]) = "album"
                        /\ releaseKey(runSearch(lines)[j]) = releaseKey(runSearch(lines)[i])},
           \/ how = "off" \/ EntityKind(runSearch(lines)[i]) = "album" \/ albums = {}
           \/ \E j \in albums : ~Extra(runSearch(lines)[j], request)
    PROVE  \E n \in 1..Len(search(how, lines, request)), j \in 1..Len(runSearch(lines)) :
              /\ search(how, lines, request)[n] = runSearch(lines)[j]
              /\ releaseKey(runSearch(lines)[j]) = releaseKey(runSearch(lines)[i])
              /\ j = i \/ EntityKind(runSearch(lines)[j]) = "album"
<1> DEFINE hits == runSearch(lines)
           kept == {k \in 1..Len(hits) :
                      /\ matches(hits[k], request)
                      /\ \/ EntityKind(hits[k]) = "album"
                         \/ releaseKey(hits[k]) \notin coveredByAlbum(hits, request)}
           asked == filterResults(hits, request)
           shown == search(how, lines, request)
<1>1. hits \in Seq(Found)
  BY SearchFinds
<1>2. asked = ElementsAt(hits, kept) /\ shown = Apply(how, asked, request)
  BY DEF filterResults, search
<1>3. /\ i \in 1..Len(hits) /\ matches(hits[i], request)
      /\ how = "off" \/ ~Extra(hits[i], request)
      /\ albums = {j \in 1..Len(hits) :
                      /\ matches(hits[j], request) /\ EntityKind(hits[j]) = "album"
                      /\ releaseKey(hits[j]) = releaseKey(hits[i])}
      /\ \/ how = "off" \/ EntityKind(hits[i]) = "album" \/ albums = {}
         \/ \E j \in albums : ~Extra(hits[j], request)
  OBVIOUS
<1> SUFFICES \E n \in 1..Len(shown), j \in 1..Len(hits) :
                /\ shown[n] = hits[j] /\ releaseKey(hits[j]) = releaseKey(hits[i])
                /\ j = i \/ EntityKind(hits[j]) = "album"
  OBVIOUS
<1> HIDE DEF hits, asked, shown
<1>4. albums \subseteq kept
  BY <1>3
<1>5. i \notin kept => EntityKind(hits[i]) # "album" /\ albums # {}
  BY <1>3 DEF coveredByAlbum
<1>6. PICK j \in kept : /\ releaseKey(hits[j]) = releaseKey(hits[i])
                        /\ j = i \/ EntityKind(hits[j]) = "album"
                        /\ how = "off" \/ ~Extra(hits[j], request)
  <2>1. CASE i \in kept
    BY <1>3, <2>1
  <2>2. CASE i \notin kept
    <3>1. PICK j \in albums : how = "off" \/ ~Extra(hits[j], request)
      BY <1>3, <1>5, <2>2
    <3> QED
      BY <1>3, <1>4, <3>1
  <2> QED
    BY <2>1, <2>2
<1>7. kept \in SUBSET (1..Len(hits)) /\ j \in 1..Len(hits)
  OBVIOUS
<1> HIDE DEF kept
<1>8. asked \in Seq(Found) /\ \E n \in 1..Len(asked) : asked[n] = hits[j]
  BY <1>1, <1>2, <1>7, FilterGives
<1>9. \E n \in 1..Len(shown) : shown[n] = hits[j]
  <2>1. CASE how = "off"
    BY <1>2, <1>8, <2>1 DEF Apply
  <2>2. CASE how # "off"
    <3> DEFINE plain == {k \in 1..Len(asked) : ~Extra(asked[k], request)}
    <3>1. PICK n \in 1..Len(asked) : asked[n] = hits[j]
      BY <1>8
    <3>2. plain \in SUBSET (1..Len(asked)) /\ n \in plain
      BY <1>6, <2>2, <3>1
    <3>3. shown = ElementsAt(asked, plain)
      BY <1>2, <2>2 DEF Apply
    <3> HIDE DEF plain
    <3>4. \E k \in 1..Len(ElementsAt(asked, plain)) : ElementsAt(asked, plain)[k] = asked[n]
      BY <1>8, <3>2, FilterGives
    <3> QED
      BY <3>1, <3>3, <3>4
  <2> QED
    BY <2>1, <2>2
<1> QED
  BY <1>6, <1>7, <1>9

-----------------------------------------------------------------------------
(* Pages.                                                                   *)

(* A page goes on where the one before it ended, and is empty only at the    *)
(* end.                                                                     *)
LEMMA PageGoesOn ==
    ASSUME NEW S, NEW results \in Seq(S), NEW o \in Nat, NEW n \in Nat
    PROVE  LET page == paginate(results, o, n)
           IN  /\ page.items \in Seq(S) /\ page.total = Len(results)
               /\ \A k \in 1..Len(page.items) : page.items[k] = results[o + k]
               /\ o <= Len(results) =>
                     /\ o + Len(page.items) <= Len(results)
                     /\ page.items = <<>> => o = Len(results)
<1> DEFINE end == IF n > 0 /\ o + n < Len(results) THEN o + n ELSE Len(results)
           items == paginate(results, o, n).items
<1>1. Len(results) \in Nat /\ end \in Nat /\ end <= Len(results)
  OBVIOUS
<1>2. CASE o >= Len(results)
  BY <1>1, <1>2 DEF paginate
<1>3. CASE ~(o >= Len(results))
  <2>1. o + 1 \in 1..Len(results) /\ end \in (o + 1)..Len(results)
    BY <1>1, <1>3
  <2>2. items = SubSeq(results, o + 1, end) /\ paginate(results, o, n).total = Len(results)
    BY <1>3 DEF paginate
  <2> HIDE DEF end, items
  <2>3. /\ SubSeq(results, o + 1, end) \in Seq(S)
        /\ Len(SubSeq(results, o + 1, end)) = end - o
        /\ \A k \in 1..(end - o) : SubSeq(results, o + 1, end)[k] = results[o + k]
    BY <1>1, <2>1
  <2>4. Len(items) = end - o /\ Len(items) > 0 /\ items # <<>>
    BY <1>1, <2>1, <2>2, <2>3
  <2> QED
    BY <1>1, <2>1, <2>2, <2>3, <2>4 DEF items
<1> QED
  BY <1>2, <1>3

-----------------------------------------------------------------------------
(* From the feed to the job.                                                *)

Offered == {Item(hit, 0) : hit \in Found}

(* A release is the same item in every search, and its name and its URL     *)
(* come with the NZB to the job.                                            *)
LEMMA ItemSays ==
    ASSUME NEW hit \in Found, NEW n
    PROVE  LET item == Item(hit, n)
               job == Job(handleGet(item.link))
           IN  /\ item \in Offered
               /\ item.title = <<hit.artist.whole, hit.album>> /\ item.date = hit.url
               /\ item.link.url = hit.url
               /\ job.url = hit.url /\ job.filename = item.title
<1> DEFINE item == Item(hit, n)
           title == <<hit.artist.whole, hit.album>>
           given == [url |-> hit.url, name |-> title, tracks |-> hit.tracks,
                     size |-> EstimateSizeBytes(hit.tracks)]
           link == Given(given)
           release == Read(link)
           named == [release EXCEPT !.name = IF @ = NoName THEN release.url ELSE @]
           nzb == Given(named)
<1>1. title # NoName
  BY SessionAssumption
<1>2. item.title = title /\ item.date = hit.url /\ item.link = link /\ item = Item(hit, 0)
  BY DEF Item, PubDate
<1>3. {"url", "name"} \subseteq DOMAIN link /\ link.url = hit.url /\ link.name = title
  BY DEF Given
<1> HIDE DEF title, link
<1>4. DOMAIN release = {"url", "name", "size", "tracks"} /\ release.url = hit.url /\ release.name = title
  BY <1>3 DEF Read, Blank
<1> HIDE DEF release
<1>5. named.url = hit.url /\ named.name = title
  BY <1>1, <1>4
<1> HIDE DEF named
<1>6. {"url", "name"} \subseteq DOMAIN nzb /\ nzb.url = hit.url /\ nzb.name = title
  BY <1>5 DEF Given
<1> HIDE DEF nzb
<1>7. Read(nzb).url = hit.url /\ Read(nzb).name = title
  BY <1>6 DEF Read, Blank
<1>8. handleGet(link) = nzb
  BY DEF handleGet, GenerateNZBRelease, nzb, named, release
<1>9. Job(nzb).url = hit.url /\ Job(nzb).filename = title
  BY <1>7 DEF Job, ParseNZBMeta
<1>10. item \in Offered
  BY <1>2 DEF Offered
<1> HIDE DEF item
<1> QED
  BY <1>2, <1>3, <1>8, <1>9, <1>10 DEF item, title

-----------------------------------------------------------------------------
(* The session.                                                             *)

Searching == pc \notin {"start", "foreign"}

(* The feed is as much as has been read of the results of the backend that  *)
(* has answered, if one has answered alone.                                 *)
Reads(backend) ==
    /\ offset <= Len(Results(backend))
    /\ \A k \in 1..offset : feed[k] = Item(Results(backend)[k], now)
    /\ pc = "listed" => offset = Len(Results(backend))

FeedInv ==
    /\ pc \in {"start", "foreign", "paging", "listed", "failed"}
    /\ Searching => limit \in Nat /\ printed \in [python : PythonLists, cli : CLILists]
    /\ ~Searching => feed = <<>> /\ answered = {} /\ jobs = {} /\ grabs = <<>>
    /\ answered \subseteq {"python", "cli"}
    /\ feed \in Seq(Offered) /\ offset = Len(feed)
    /\ answered = {} => feed = <<>> /\ pc # "listed"
    /\ Searching =>
          \A backend \in {"python", "cli"} : answered \subseteq {backend} => Reads(backend)

(* What was grabbed is being downloaded, or has failed and is blocked.      *)
GrabInv ==
    /\ grabs \in Seq(Offered)
    /\ \A job \in jobs : \E item \in Offered : job = Job(handleGet(item.link))
    /\ \A i \in 1..Len(grabs) : Blocked(grabs[i]) \/ Followed(grabs[i])
    /\ NoGrabLoop

(* The results of either backend are found releases.                        *)
LEMMA ResultsAreFound ==
    ASSUME FeedInv, Searching, NEW backend \in {"python", "cli"}
    PROVE  Results(backend) \in Seq(Found)
<1>1. printed[backend] \in Seq(Lines)
  BY SessionAssumption DEF FeedInv
<1> QED
  BY <1>1, SearchShows DEF Results

(* The items of a page are on offer.                                        *)
LEMMA ItemsAreOffered ==
    ASSUME NEW hits \in Seq(Found)
    PROVE  /\ Items(hits) \in Seq(Offered) /\ Len(Items(hits)) = Len(hits)
           /\ \A k \in 1..Len(hits) : Items(hits)[k] = Item(hits[k], now)
<1>1. Len(hits) \in Nat /\ \A k \in 1..Len(hits) : hits[k] \in Found
  OBVIOUS
<1>2. \A k \in 1..Len(hits) : Item(hits[k], now) \in Offered
  BY <1>1, ItemSays
<1>3. Items(hits) \in [1..Len(hits) -> Offered] /\ DOMAIN Items(hits) = 1..Len(hits)
  BY <1>2 DEF Items
<1>4. \A k \in 1..Len(hits) : Items(hits)[k] = Item(hits[k], now)
  BY DEF Items
<1> HIDE DEF Items
<1> QED
  BY <1>1, <1>3, <1>4

(* A page continues what has been read of a backend's results.              *)
LEMMA PageRead ==
    ASSUME FeedInv, RequestPage PROVE FeedInv'
<1>1. pc = "paging" /\ UNCHANGED <<settings, now, jobs, grabs>>
  BY DEF RequestPage
<1>2. PICK backend \in Backends :
         LET page == paginate(Results(backend), offset, limit)
         IN  /\ feed' = feed \o Items(page.items)
             /\ offset' = offset + Len(page.items)
             /\ answered' = answered \cup {backend}
             /\ pc' = IF page.items = <<>> \/ offset' >= page.total THEN "listed" ELSE "paging"
  BY DEF RequestPage
<1> DEFINE page == paginate(Results(backend), offset, limit)
<1>3. backend \in {"python", "cli"} /\ Searching /\ offset \in Nat /\ limit \in Nat
  BY <1>1 DEF Backends, Searching, FeedInv
<1>4. Results(backend) \in Seq(Found) /\ Len(Results(backend)) \in Nat
  BY <1>3, ResultsAreFound
<1>5. /\ page.items \in Seq(Found) /\ page.total = Len(Results(backend))
      /\ \A k \in 1..Len(page.items) : page.items[k] = Results(backend)[offset + k]
      /\ offset <= Len(Results(backend)) =>
            /\ offset + Len(page.items) <= Len(Results(backend))
            /\ page.items = <<>> => offset = Len(Results(backend))
  BY <1>3, <1>4, PageGoesOn
<1> DEFINE items == Items(page.items)
<1>6. /\ items \in Seq(Offered) /\ Len(items) = Len(page.items) /\ Len(items) \in Nat
      /\ \A k \in 1..Len(items) : items[k] = Item(Results(backend)[offset + k], now)
  BY <1>5, ItemsAreOffered
<1>7. /\ feed' = feed \o items /\ offset' = offset + Len(items)
      /\ answered' = answered \cup {backend}
      /\ pc' \in {"listed", "paging"}
      /\ pc' = "listed" => items = <<>> \/ offset' >= Len(Results(backend))
  <2>1. page.items = <<>> => items = <<>>
    BY <1>6
  <2> QED
    BY <1>2, <1>5, <1>6, <2>1
<1>8. offset <= Len(Results(backend)) =>
         /\ offset + Len(items) <= Len(Results(backend))
         /\ items = <<>> => offset = Len(Results(backend))
  BY <1>5, <1>6
<1> HIDE DEF page, items
<1>9. feed' \in Seq(Offered) /\ offset' = Len(feed')
  <2>1. feed \in Seq(Offered) /\ offset = Len(feed)
    BY DEF FeedInv
  <2>2. feed \o items \in Seq(Offered) /\ Len(feed \o items) = Len(feed) + Len(items)
    BY <1>6, <2>1
  <2>3. feed' \in Seq(Offered) /\ Len(feed') = Len(feed) + Len(items)
    BY <1>7, <2>2
  <2> QED
    BY <1>7, <2>1, <2>3
<1>10. ASSUME answered' = {backend} PROVE Reads(backend)'
  <2>1. offset <= Len(Results(backend)) /\ \A k \in 1..offset : feed[k] = Item(Results(backend)[k], now)
    BY <1>3, <1>7, <1>10 DEF FeedInv, Reads
  <2>2. offset' <= Len(Results(backend)) /\ (pc' = "listed" => offset' = Len(Results(backend)))
    BY <1>3, <1>4, <1>6, <1>7, <1>8, <2>1
  <2>3. \A k \in 1..offset' : feed'[k] = Item(Results(backend)[k], now)
    <3> SUFFICES ASSUME NEW k \in 1..offset' PROVE feed'[k] = Item(Results(backend)[k], now)
      OBVIOUS
    <3>1. feed \in Seq(Offered) /\ offset = Len(feed)
      BY DEF FeedInv
    <3>2. CASE k <= offset
      BY <1>3, <1>6, <1>7, <2>1, <3>1, <3>2
    <3>3. CASE k > offset
      <4>1. k - offset \in 1..Len(items) /\ offset + (k - offset) = k
        BY <1>3, <1>6, <1>7, <3>3
      <4>2. feed'[k] = items[k - offset]
        BY <1>3, <1>6, <1>7, <3>1, <3>3, <4>1
      <4> QED
        BY <1>6, <4>1, <4>2
    <3> QED
      BY <1>3, <3>2, <3>3
  <2>4. Results(backend)' = Results(backend)
    BY <1>1 DEF settings, Results, want
  <2> QED
    BY <1>1, <2>2, <2>3, <2>4 DEF Reads
<1>11. \A b \in {"python", "cli"} : answered' \subseteq {b} => b = backend /\ answered' = {backend}
  BY <1>7
<1> QED
  BY <1>1, <1>3, <1>7, <1>9, <1>10, <1>11 DEF FeedInv, Searching, settings

(* Every step keeps what is known of the feed.                              *)
LEMMA FeedStep ==
    ASSUME FeedInv, [Next]_vars PROVE FeedInv'
<1>1. ASSUME UNCHANGED <<settings, now, offset, feed, answered>>,
             pc' = pc \/ (pc = "paging" /\ pc' = "failed")
      PROVE  /\ \A b \in {"python", "cli"} : Reads(b) => Reads(b)'
             /\ feed' \in Seq(Offered) /\ offset' = Len(feed')
  <2>1. \A b : Results(b)' = Results(b)
    BY <1>1 DEF settings, Results, want
  <2> QED
    BY <1>1, <2>1 DEF Reads, FeedInv
<1>2. CASE Connect
  BY <1>2, SessionAssumption DEF Connect, FeedInv, Searching, Reads
<1>3. CASE RequestPage
  BY <1>3, PageRead
<1>4. CASE SearchFails
  BY <1>1, <1>4 DEF SearchFails, FeedInv, Searching, settings
<1>5. CASE SearchAgain
  BY <1>5 DEF SearchAgain, FeedInv, Searching, Reads, settings
<1>6. ASSUME NEW i \in 1..Len(feed), Grab(feed[i]) PROVE FeedInv'
  BY <1>1, <1>6 DEF Grab, FeedInv, Searching, settings
<1>7. ASSUME NEW job \in jobs, Fail(job) PROVE FeedInv'
  BY <1>1, <1>7 DEF Fail, FeedInv, Searching, settings
<1>8. ASSUME NEW r \in ApiRequests, Foreign(r) PROVE FeedInv'
  BY <1>8 DEF Foreign, FeedInv, Searching
<1>9. CASE UNCHANGED vars
  BY <1>1, <1>9 DEF vars, FeedInv, Searching, settings
<1> QED
  BY <1>2, <1>3, <1>4, <1>5, <1>6, <1>7, <1>8, <1>9 DEF Next

(* What is known of the feed holds in every reachable state.                 *)
THEOREM FeedInvariant == Spec => []FeedInv
<1>1. Init => FeedInv
  BY DEF Init, FeedInv, Searching
<1>2. FeedInv /\ [Next]_vars => FeedInv'
  BY FeedStep
<1> QED
  BY <1>1, <1>2, PTL DEF Spec

(* Whatever the backends print and however large the pages: the pages of a  *)
(* search that one backend answered are its feed, nothing twice and nothing *)
(* left out.                                                                *)
THEOREM PagesAlwaysCoverFeed == Spec => []PagesCoverFeed
<1>1. FeedInv => PagesCoverFeed
  <2> SUFFICES ASSUME FeedInv, NEW backend \in answered, pc = "listed", answered = {backend}
               PROVE  feed = Items(Results(backend))
    BY DEF PagesCoverFeed
  <2>1. backend \in {"python", "cli"} /\ Searching /\ Reads(backend)
    BY DEF FeedInv, Searching
  <2>2. Results(backend) \in Seq(Found)
    BY <2>1, ResultsAreFound
  <2>3. /\ Items(Results(backend)) \in Seq(Offered)
        /\ Len(Items(Results(backend))) = Len(Results(backend))
        /\ \A k \in 1..Len(Results(backend)) :
              Items(Results(backend))[k] = Item(Results(backend)[k], now)
    BY <2>2, ItemsAreOffered
  <2>4. /\ feed \in Seq(Offered) /\ Len(feed) = Len(Results(backend))
        /\ \A k \in 1..Len(feed) : feed[k] = Item(Results(backend)[k], now)
    BY <2>1 DEF FeedInv, Reads
  <2> QED
    BY <2>3, <2>4
<1> QED
  BY <1>1, FeedInvariant, PTL

(* Whatever is asked for and printed, and however names are spelled: of     *)
(* every hit that matches and is no unwanted variant, the release is on     *)
(* offer, unless its albums are all unwanted variants in their spelling.    *)
THEOREM ReleasesAreOffered == Spec => []EveryReleaseOffered
<1>1. FeedInv => EveryReleaseOffered
  <2> SUFFICES ASSUME FeedInv, NEW backend \in answered, pc = "listed", answered = {backend},
                      want.query # NoName, ~SkipQuery(exclude, want),
                      NEW i \in 1..Len(runSearch(printed[backend])),
                      matches(runSearch(printed[backend])[i], want),
                      exclude = "off" \/ ~Extra(runSearch(printed[backend])[i], want),
                      ~Swallowed(runSearch(printed[backend]), i)
               PROVE  Offers(runSearch(printed[backend]), i)
    BY DEF EveryReleaseOffered
  <2> DEFINE hits == runSearch(printed[backend])
             albums == AlbumsOf(hits, i)
  <2>1. backend \in {"python", "cli"} /\ Searching /\ Reads(backend)
    BY DEF FeedInv, Searching
  <2>2. printed[backend] \in Seq(Lines) /\ Results(backend) = search(exclude, printed[backend], want)
    BY <2>1, SessionAssumption DEF FeedInv, Results
  <2>3. PICK n \in 1..Len(Results(backend)), j \in 1..Len(hits) :
           /\ Results(backend)[n] = hits[j]
           /\ releaseKey(hits[j]) = releaseKey(hits[i])
           /\ j = i \/ EntityKind(hits[j]) = "album"
    <3>1. albums = {j \in 1..Len(hits) :
                       /\ matches(hits[j], want) /\ EntityKind(hits[j]) = "album"
                       /\ releaseKey(hits[j]) = releaseKey(hits[i])}
      BY DEF AlbumsOf
    <3>2. \/ exclude = "off" \/ EntityKind(hits[i]) = "album" \/ albums = {}
          \/ \E j \in albums : ~Extra(hits[j], want)
      BY DEF Swallowed
    <3> HIDE DEF albums
    <3> QED
      BY <2>2, <3>1, <3>2, SearchOffers
  <2>4. feed[n] = Item(Results(backend)[n], now) /\ n \in 1..Len(feed)
    BY <2>1, <2>3 DEF FeedInv, Reads
  <2>5. Results(backend)[n] \in Found
    BY <2>1, <2>3, ResultsAreFound
  <2>6. feed[n].link.url = hits[j].url
    BY <2>3, <2>4, <2>5, ItemSays
  <2> HIDE DEF hits
  <2>7. Offers(hits, i)
    BY <2>3, <2>4, <2>6 DEF Offers
  <2> QED
    BY <2>7 DEF hits
<1> QED
  BY <1>1, FeedInvariant, PTL

-----------------------------------------------------------------------------
(* Grabs.                                                                   *)

(* What a job and a block need: every release found has a URL that addfile  *)
(* takes, and one URL is one release under one title.                       *)
URLsAreReleases ==
    \A hit, other \in Found :
        /\ IsValidSpotifyURL(hit.url)
        /\ hit.url = other.url =>
              <<hit.artist.whole, hit.album>> = <<other.artist.whole, other.album>>

(* The same for what is on offer.                                           *)
LEMMA OneJobPerOffer ==
    ASSUME URLsAreReleases, NEW item \in Offered
    PROVE  /\ item.date = item.link.url
           /\ IsValidSpotifyURL(Job(handleGet(item.link)).url)
           /\ Job(handleGet(item.link)).url = item.link.url
           /\ Job(handleGet(item.link)).filename = item.title
           /\ \A other \in Offered :
                 item.link.url = other.link.url => item.title = other.title
<1>1. \A x \in Offered : \E hit \in Found : x = Item(hit, 0)
  BY DEF Offered
<1>2. PICK hit \in Found : item = Item(hit, 0)
  BY <1>1
<1>3. /\ item.title = <<hit.artist.whole, hit.album>> /\ item.date = hit.url
      /\ item.link.url = hit.url /\ Job(handleGet(item.link)).url = hit.url
      /\ Job(handleGet(item.link)).filename = item.title
  BY <1>2, ItemSays
<1>4. ASSUME NEW other \in Offered, item.link.url = other.link.url
      PROVE  item.title = other.title
  <2>1. PICK hit2 \in Found : other = Item(hit2, 0)
    BY <1>1
  <2>2. other.title = <<hit2.artist.whole, hit2.album>> /\ other.link.url = hit2.url
    BY <2>1, ItemSays
  <2> QED
    BY <1>3, <1>4, <2>2 DEF URLsAreReleases
<1> QED
  BY <1>3, <1>4 DEF URLsAreReleases

(* Every step keeps what is known of the grabs.                             *)
LEMMA GrabStep ==
    ASSUME URLsAreReleases, FeedInv, GrabInv, [Next]_vars PROVE GrabInv'
<1>1. CASE UNCHANGED <<jobs, grabs, blocklist>>
  BY <1>1 DEF GrabInv, NoGrabLoop, Blocked, Followed
<1>2. ASSUME NEW k \in 1..Len(feed), Grab(feed[k]) PROVE GrabInv'
  <2> DEFINE job == Job(handleGet(feed[k].link))
  <2>1. PICK item \in Offered : item = feed[k]
    BY DEF FeedInv
  <2>2. /\ item.date = item.link.url /\ IsValidSpotifyURL(job.url)
        /\ job.url = item.link.url /\ job.filename = item.title
    BY <2>1, OneJobPerOffer
  <2>3. /\ ~Blocked(item) /\ ~Followed(item) /\ grabs' = Append(grabs, item)
        /\ jobs' = IF \A j \in jobs : j.url # job.url THEN jobs \cup {job} ELSE jobs
        /\ blocklist' = blocklist
    BY <1>2, <2>1, <2>2 DEF Grab
  <2>4. /\ grabs \in Seq(Offered) /\ Len(grabs) \in Nat
        /\ \A i \in 1..Len(grabs) : grabs[i] \in Offered
    BY DEF GrabInv
  <2>5. /\ grabs' \in Seq(Offered) /\ Len(grabs') = Len(grabs) + 1
        /\ \A i \in 1..Len(grabs) : grabs'[i] = grabs[i]
        /\ grabs'[Len(grabs) + 1] = item
    BY <2>3, <2>4
  <2>6. \A j \in jobs' : \E x \in Offered : j = Job(handleGet(x.link))
    BY <2>1, <2>3 DEF GrabInv
  <2>7. \A j \in jobs : j.url # job.url
    <3> SUFFICES ASSUME NEW j \in jobs, j.url = job.url PROVE FALSE
      OBVIOUS
    <3>1. PICK x \in Offered : j = Job(handleGet(x.link))
      BY DEF GrabInv
    <3>2. j.url = x.link.url /\ j.filename = x.title
      BY <3>1, OneJobPerOffer
    <3>3. x.title = item.title
      BY <2>2, <3>2, OneJobPerOffer
    <3> QED
      BY <2>3, <3>2, <3>3 DEF Followed
  <2>8. jobs \subseteq jobs' /\ job \in jobs'
    BY <2>3, <2>7
  <2>9. \A i \in 1..Len(grabs') : Blocked(grabs[i])' \/ Followed(grabs[i])'
    <3> SUFFICES ASSUME NEW i \in 1..Len(grabs')
                 PROVE  \/ \E b \in blocklist' : b.title = grabs'[i].title /\ b.date = grabs'[i].date
                        \/ \E j \in jobs' : j.filename = grabs'[i].title
      BY DEF Blocked, Followed
    <3>1. CASE i \in 1..Len(grabs)
      BY <2>3, <2>5, <2>8, <3>1 DEF GrabInv, Blocked, Followed
    <3>2. CASE i = Len(grabs) + 1
      BY <2>2, <2>5, <2>8, <3>2
    <3> QED
      BY <2>4, <2>5, <3>1, <3>2
  <2>10. \A i \in 1..Len(grabs) : ~(grabs[i].link.url = item.link.url /\ grabs[i].title = item.title)
    <3> SUFFICES ASSUME NEW i \in 1..Len(grabs), grabs[i].link.url = item.link.url,
                        grabs[i].title = item.title
                 PROVE  FALSE
      OBVIOUS
    <3>1. grabs[i].date = item.date
      BY <2>2, <2>4, OneJobPerOffer
    <3>2. Blocked(grabs[i]) \/ Followed(grabs[i])
      BY DEF GrabInv
    <3> QED
      BY <2>3, <3>1, <3>2 DEF Blocked, Followed
  <2>11. NoGrabLoop'
    BY <2>4, <2>5, <2>10 DEF GrabInv, NoGrabLoop
  <2> QED
    BY <2>5, <2>6, <2>9, <2>11 DEF GrabInv
<1>3. ASSUME NEW job \in jobs, Fail(job) PROVE GrabInv'
  <2>1. /\ jobs' = jobs \ {job} /\ grabs' = grabs
        /\ blocklist' = blocklist \cup
              {[title |-> grabs[i].title, date |-> grabs[i].date] :
                  i \in {k \in 1..Len(grabs) : grabs[k].title = job.filename}}
    BY <1>3 DEF Fail
  <2>2. ASSUME NEW i \in 1..Len(grabs)
        PROVE  \/ \E b \in blocklist' : b.title = grabs[i].title /\ b.date = grabs[i].date
               \/ \E j \in jobs' : j.filename = grabs[i].title
    <3>1. CASE grabs[i].title = job.filename
      <4>1. [title |-> grabs[i].title, date |-> grabs[i].date] \in blocklist'
        BY <2>1, <3>1
      <4> QED
        BY <4>1
    <3>2. CASE grabs[i].title # job.filename
      <4>1. Blocked(grabs[i]) \/ Followed(grabs[i])
        BY DEF GrabInv
      <4> QED
        BY <2>1, <3>2, <4>1 DEF Blocked, Followed
    <3> QED
      BY <3>1, <3>2
  <2> QED
    BY <2>1, <2>2 DEF GrabInv, NoGrabLoop, Blocked, Followed
<1> QED
  BY <1>1, <1>2, <1>3 DEF Next, Connect, RequestPage, SearchFails, SearchAgain, Foreign, vars

(* A release that failed is not grabbed again, and one that is being        *)
(* downloaded is not grabbed twice, over any number of searches.            *)
THEOREM GrabsNeverLoop ==
    ASSUME URLsAreReleases PROVE Spec => []NoGrabLoop
<1>1. Init => GrabInv
  BY DEF Init, GrabInv, NoGrabLoop
<1>2. FeedInv /\ GrabInv /\ [Next]_vars => GrabInv'
  BY GrabStep
<1>3. GrabInv => NoGrabLoop
  BY DEF GrabInv
<1> QED
  BY <1>1, <1>2, <1>3, FeedInvariant, PTL DEF Spec

-----------------------------------------------------------------------------
(* Requests without a key.                                                  *)

(* The relay's route and the three groups.                                  *)
LEMMA GroupsAre ==
    /\ Len(buildApp) = 4
    /\ buildApp[1] = Route("/api/verify-relay", "relay", {"GET"})
    /\ buildApp[2] = Group("/api/sabnzbd", {"version", "auth"}, {}, "sabnzbd", {"GET", "POST"})
    /\ buildApp[3] = Group("/api", {"version", "auth"}, {"caps"}, "sabnzbd", {"GET", "POST"})
    /\ buildApp[4] = Group("/api/newznab", {}, {"caps"}, "newznab", {"GET"})
BY DEF buildApp, Relay

(* The route of a request.                                                  *)
LEMMA RouteIs ==
    ASSUME NEW r \in ApiRequests
    PROVE  RouteOf(r) = IF r.path = "/api/sabnzbd" THEN 2
                        ELSE IF r.path = "/api" THEN 3
                        ELSE IF r.method # "GET" THEN 0
                        ELSE IF r.path = "/api/verify-relay" THEN 1 ELSE 4
<1> DEFINE routes == {i \in 1..Len(buildApp) :
                         buildApp[i].prefix = r.path /\ r.method \in buildApp[i].methods}
<1>1. /\ r.path \in {"/api", "/api/sabnzbd", "/api/newznab", "/api/verify-relay"}
      /\ r.method \in {"GET", "POST"}
  BY DEF ApiRequests
<1>2. \A i : i \in routes <=>
          \/ i = 1 /\ r.path = "/api/verify-relay" /\ r.method = "GET"
          \/ i = 2 /\ r.path = "/api/sabnzbd"
          \/ i = 3 /\ r.path = "/api"
          \/ i = 4 /\ r.path = "/api/newznab" /\ r.method = "GET"
  <2>1. \A i : i \in 1..4 <=> i = 1 \/ i = 2 \/ i = 3 \/ i = 4
    OBVIOUS
  <2> QED
    BY <1>1, <2>1, GroupsAre DEF Group, Route
<1> HIDE DEF routes
<1>3. ASSUME NEW n \in Nat, \A i : i \in routes <=> i = n
      PROVE  (CHOOSE i \in routes : \A j \in routes : i <= j) = n /\ routes # {}
  <2>1. n \in routes /\ \A j \in routes : n <= j
    BY <1>3
  <2> QED
    BY <1>3, <2>1
<1>4. RouteOf(r) = IF routes = {} THEN 0 ELSE CHOOSE i \in routes : \A j \in routes : i <= j
  BY DEF RouteOf, routes
<1>5. CASE r.path = "/api/sabnzbd"
  <2>1. \A i : i \in routes <=> i = 2
    BY <1>2, <1>5
  <2> QED
    BY <1>3, <1>4, <1>5, <2>1
<1>6. CASE r.path = "/api"
  <2>1. \A i : i \in routes <=> i = 3
    BY <1>2, <1>6
  <2> QED
    BY <1>3, <1>4, <1>6, <2>1
<1>7. CASE r.path = "/api/newznab" /\ r.method = "GET"
  <2>1. \A i : i \in routes <=> i = 4
    BY <1>2, <1>7
  <2> QED
    BY <1>3, <1>4, <1>7, <2>1
<1>8. CASE r.path = "/api/verify-relay" /\ r.method = "GET"
  <2>1. \A i : i \in routes <=> i = 1
    BY <1>2, <1>8
  <2> QED
    BY <1>3, <1>4, <1>8, <2>1
<1>9. CASE r.path \in {"/api/newznab", "/api/verify-relay"} /\ r.method = "POST"
  <2>1. routes = {}
    BY <1>2, <1>9
  <2> QED
    BY <1>4, <1>9, <2>1
<1> QED
  BY <1>1, <1>5, <1>6, <1>7, <1>8, <1>9

(* Who is refused on the way to each of the routes.                         *)
LEMMA RefusedBy ==
    ASSUME NEW r \in ApiRequests, KeyOf(r) # "right"
    PROVE  /\ ~Refused(r, 1)
           /\ r.path = "/api/sabnzbd" =>
                 (Refused(r, 2) <=> ModeOf(r) \notin {"version", "auth"})
           /\ r.path = "/api" =>
                 (Refused(r, 3) <=> /\ ModeOf(r) \notin {"version", "auth"}
                                    /\ ModeOf(r) # "" \/ r.query.t # "caps")
           /\ r.path = "/api/newznab" =>
                 (Refused(r, 4) <=> (ModeOf(r) # "" \/ r.query.t # "caps"))
<1>1. \A i : APIKeyAuth(buildApp[i], r) <=> Exempt(buildApp[i], r)
  BY DEF APIKeyAuth
<1>2. /\ buildApp[2].skipModes = {"version", "auth"} /\ buildApp[2].skipTypes = {}
      /\ buildApp[3].skipModes = {"version", "auth"} /\ buildApp[3].skipTypes = {"caps"}
      /\ buildApp[4].skipModes = {} /\ buildApp[4].skipTypes = {"caps"}
      /\ ~buildApp[1].asksKey /\ buildApp[2].asksKey /\ buildApp[3].asksKey /\ buildApp[4].asksKey
      /\ buildApp[2].prefix = "/api/sabnzbd" /\ buildApp[3].prefix = "/api"
      /\ buildApp[4].prefix = "/api/newznab"
  BY GroupsAre DEF Group, Route
<1>3. /\ Exempt(buildApp[2], r) <=> ModeOf(r) \in {"version", "auth"}
      /\ Exempt(buildApp[3], r) <=>
            \/ ModeOf(r) \in {"version", "auth"}
            \/ ModeOf(r) = "" /\ r.query.t = "caps"
      /\ Exempt(buildApp[4], r) <=> (ModeOf(r) = "" /\ r.query.t = "caps")
  BY <1>2 DEF Exempt
<1>4. /\ \A i : i \in 1..1 <=> i = 1
      /\ \A i : i \in 1..2 <=> i = 1 \/ i = 2
      /\ \A i : i \in 1..3 <=> i = 1 \/ i = 2 \/ i = 3
      /\ \A i : i \in 1..4 <=> i = 1 \/ i = 2 \/ i = 3 \/ i = 4
  OBVIOUS
<1>5. ~Refused(r, 1)
  BY <1>2, <1>4 DEF Refused
<1>6. r.path = "/api/sabnzbd" => (Refused(r, 2) <=> ModeOf(r) \notin {"version", "auth"})
  BY <1>1, <1>2, <1>3, <1>4 DEF Refused, HasPrefix
<1>7. r.path = "/api" =>
         (Refused(r, 3) <=> /\ ModeOf(r) \notin {"version", "auth"}
                            /\ ModeOf(r) # "" \/ r.query.t # "caps")
  BY <1>1, <1>2, <1>3, <1>4 DEF Refused, HasPrefix
<1>8. r.path = "/api/newznab" =>
         (Refused(r, 4) <=> (ModeOf(r) # "" \/ r.query.t # "caps"))
  BY <1>1, <1>2, <1>3, <1>4 DEF Refused, HasPrefix
<1> QED
  BY <1>5, <1>6, <1>7, <1>8

(* What answers a request that has no key.                                  *)
LEMMA WithoutKey ==
    ASSUME NEW r \in ApiRequests, KeyOf(r) # "right"
    PROVE  IF r.path \in {"/api", "/api/sabnzbd"} /\ ModeOf(r) \in {"version", "auth"}
           THEN Serve(r) = ModeOf(r)
           ELSE IF r.path = "/api/newznab" /\ r.method = "GET" /\ ModeOf(r) = "" /\ r.query.t = "caps"
           THEN Serve(r) = "caps"
           ELSE IF r.path = "/api/verify-relay" /\ r.method = "GET"
           THEN Serve(r) = "relay"
           ELSE Serve(r) \in {"401", "no route", "unknown mode"}
<1>1. /\ r.path \in {"/api", "/api/sabnzbd", "/api/newznab", "/api/verify-relay"}
      /\ r.method \in {"GET", "POST"}
  BY DEF ApiRequests
<1>2. /\ buildApp[1].serves = "relay" /\ buildApp[2].serves = "sabnzbd"
      /\ buildApp[3].serves = "sabnzbd" /\ buildApp[4].serves = "newznab"
      /\ Len(buildApp) = 4
  BY GroupsAre DEF Group, Route
<1>3. Serve(r) = IF Refused(r, IF RouteOf(r) = 0 THEN 4 ELSE RouteOf(r)) THEN "401"
                 ELSE IF RouteOf(r) = 0 THEN "no route"
                 ELSE Dispatch(buildApp[RouteOf(r)].serves, r)
  BY <1>2 DEF Serve
<1>4. CASE r.path = "/api/sabnzbd"
  <2>1. RouteOf(r) = 2
    BY <1>4, RouteIs
  <2>2. Serve(r) = IF Refused(r, 2) THEN "401" ELSE Dispatch("sabnzbd", r)
    BY <1>2, <1>3, <2>1
  <2>3. Refused(r, 2) <=> ModeOf(r) \notin {"version", "auth"}
    BY <1>4, RefusedBy
  <2> QED
    BY <1>4, <2>2, <2>3 DEF Dispatch
<1>5. CASE r.path = "/api"
  <2>1. RouteOf(r) = 3
    BY <1>5, RouteIs
  <2>2. Serve(r) = IF Refused(r, 3) THEN "401" ELSE Dispatch("sabnzbd", r)
    BY <1>2, <1>3, <2>1
  <2>3. Refused(r, 3) <=> /\ ModeOf(r) \notin {"version", "auth"}
                          /\ ModeOf(r) # "" \/ r.query.t # "caps"
    BY <1>5, RefusedBy
  <2> QED
    BY <1>5, <2>2, <2>3 DEF Dispatch
<1>6. CASE r.path = "/api/newznab"
  <2>1. RouteOf(r) = IF r.method = "GET" THEN 4 ELSE 0
    BY <1>6, RouteIs
  <2>2. Serve(r) = IF Refused(r, 4) THEN "401"
                   ELSE IF r.method = "GET" THEN Dispatch("newznab", r) ELSE "no route"
    <3>1. CASE r.method = "GET"
      <4>1. RouteOf(r) = 4
        BY <2>1, <3>1
      <4> QED
        BY <1>2, <1>3, <3>1, <4>1
    <3>2. CASE r.method # "GET"
      <4>1. RouteOf(r) = 0
        BY <2>1, <3>2
      <4> QED
        BY <1>3, <3>2, <4>1
    <3> QED
      BY <3>1, <3>2
  <2>3. Refused(r, 4) <=> (ModeOf(r) # "" \/ r.query.t # "caps")
    BY <1>6, RefusedBy
  <2> QED
    BY <1>1, <1>6, <2>2, <2>3 DEF Dispatch
<1>7. CASE r.path = "/api/verify-relay"
  <2>1. RouteOf(r) = IF r.method = "GET" THEN 1 ELSE 0
    BY <1>7, RouteIs
  <2>2. Serve(r) = IF r.method = "GET" THEN IF Refused(r, 1) THEN "401" ELSE "relay"
                   ELSE IF Refused(r, 4) THEN "401" ELSE "no route"
    BY <1>2, <1>3, <2>1 DEF Dispatch
  <2>3. ~Refused(r, 1)
    BY <1>7, RefusedBy
  <2> QED
    BY <1>1, <1>7, <2>2, <2>3
<1> QED
  BY <1>1, <1>4, <1>5, <1>6, <1>7

(* Whoever has no key is told what must work before there is one, and no    *)
(* more.                                                                    *)
THEOREM NothingMoreWithoutKey == Spec => []ServedWithoutKey
<1> DEFINE Answered ==
        pc = "foreign" => \E r \in ApiRequests : reply = [request |-> r, handler |-> Serve(r)]
<1>1. Init => Answered
  BY DEF Init
<1>2. Answered /\ [Next]_vars => Answered'
  <2> SUFFICES ASSUME Answered, [Next]_vars PROVE Answered'
    OBVIOUS
  <2>1. ASSUME NEW r \in ApiRequests, Foreign(r) PROVE Answered'
    BY <2>1 DEF Foreign
  <2>2. CASE Connect \/ RequestPage \/ SearchFails \/ SearchAgain
    BY <2>2 DEF Connect, RequestPage, SearchFails, SearchAgain
  <2>3. CASE \E i \in 1..Len(feed) : Grab(feed[i])
    BY <2>3 DEF Grab
  <2>4. CASE \E job \in jobs : Fail(job)
    BY <2>4 DEF Fail
  <2>5. CASE UNCHANGED vars
    BY <2>5 DEF vars
  <2> QED
    BY <2>1, <2>2, <2>3, <2>4, <2>5 DEF Next
<1>3. Answered => ServedWithoutKey
  <2> SUFFICES ASSUME NEW r \in ApiRequests, reply = [request |-> r, handler |-> Serve(r)],
                      KeyOf(reply.request) # "right"
               PROVE  ServedWithoutKey
    BY DEF ServedWithoutKey
  <2>1. reply.request = r /\ reply.handler = Serve(r)
    OBVIOUS
  <2> QED
    BY <2>1, WithoutKey DEF ServedWithoutKey
<1> QED
  BY <1>1, <1>2, <1>3, PTL DEF Spec
=============================================================================
