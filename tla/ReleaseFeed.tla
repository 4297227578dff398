---------------------------- MODULE ReleaseFeed ----------------------------
(***************************************************************************)
(* The indexer's algorithms: from what the search backends print to the     *)
(* page of releases Lidarr is shown (internal/indexer, newznab/handler.go), *)
(* and from a release over its synthetic NZB to the job (nzb.go, addurl.go). *)
(*                                                                         *)
(* A name is one spelling of it.  Names are compared by what                *)
(* normalizeForMatch leaves of them, but the exclude pattern looks at the   *)
(* spelling.  An artist credit has its whole name and its comma-separated   *)
(* parts.                                                                   *)
(***************************************************************************)
EXTENDS Naturals, Sequences, FiniteSets

CONSTANTS
    NoName,     \* a field that is empty
    Names,      \* artists, albums and free text, as they are spelled
    Normalized, \* the letters and digits of each, NoName if it has none
    Within,     \* of those, the pairs of which the first is part of the second
    Markers,    \* the variant markers the exclude pattern finds in a spelling
    trackSize   \* EstimateSizeBytes of one track

ASSUME FeedAssumption ==
    /\ NoName \notin Names
    /\ Normalized \in [Names -> Names \cup {NoName}]
    /\ Within \subseteq Names \X Names
    /\ \A name \in Names : <<name, name>> \in Within
    /\ DOMAIN Markers = Names
    /\ trackSize \in Nat \ {0}

-----------------------------------------------------------------------------
(* Search results.                                                          *)

(* MetadataResult.EntityKind: what the backend says, else what the URL says. *)
EntityKind(hit) ==
    IF hit.entity \in {"album", "track"} THEN hit.entity ELSE hit.url.kind

(* One line of search output; an album hit of the CLI has its title in name. *)
parseSearchLine(line) ==
    [artist |-> line.artist,
     album |-> IF line.album = NoName /\ EntityKind(line) = "album" THEN line.name
               ELSE line.album,
     url |-> line.url, entity |-> line.entity, tracks |-> line.tracks]

(* What a sequence has at some of its positions, in its order.  A filter is  *)
(* the positions it keeps, so that no proof needs an induction.             *)
ElementsAt(s, kept) ==
    [n \in 1..Cardinality(kept) |->
        s[CHOOSE i \in kept : Cardinality({k \in kept : k <= i}) = n]]

(* runSearch: a line without a URL is no release.                           *)
runSearch(lines) ==
    LET kept == {i \in 1..Len(lines) : lines[i].url # NoName}
    IN  [n \in 1..Cardinality(kept) |-> parseSearchLine(ElementsAt(lines, kept)[n])]

normalizeForMatch(name) == IF name \in Names THEN Normalized[name] ELSE NoName

creditsArtist(credit, wantArtist) ==
    \/ normalizeForMatch(credit.whole) = wantArtist
    \/ \E i \in 1..Len(credit.parts) : normalizeForMatch(credit.parts[i]) = wantArtist

(* The first credit only: tracks list guests whom the album does not.       *)
releaseKey(hit) ==
    <<normalizeForMatch(hit.artist.parts[1]), normalizeForMatch(hit.album)>>

(* A name without a letter or digit asks for nothing.                       *)
matches(hit, want) ==
    LET wantArtist == normalizeForMatch(want.artist)
        wantAlbum == normalizeForMatch(want.album)
    IN  /\ hit.album # NoName
        /\ wantArtist # NoName => creditsArtist(hit.artist, wantArtist)
        /\ wantAlbum # NoName => <<wantAlbum, normalizeForMatch(hit.album)>> \in Within

(* A bug: an album nobody asked for covers its tracks.                      *)
CoverByAnyAlbum(results, want) ==
    {releaseKey(results[i]) : i \in {k \in 1..Len(results) :
        EntityKind(results[k]) = "album"}}

coveredByAlbum(results, want) ==
    {releaseKey(results[i]) : i \in {k \in 1..Len(results) :
        matches(results[k], want) /\ EntityKind(results[k]) = "album"}}

filterResults(results, want) ==
    ElementsAt(results, {i \in 1..Len(results) :
        /\ matches(results[i], want)
        /\ \/ EntityKind(results[i]) = "album"
           \/ releaseKey(results[i]) \notin coveredByAlbum(results, want)})

(* ExcludeFilter: "off", "drop", or "skip" which also skips the search.     *)
markers(text) == IF text \in Names THEN Markers[text] ELSE {}

Wanted(want) == IF want.album # NoName THEN want.album ELSE want.query

SkipQuery(exclude, want) == exclude = "skip" /\ markers(Wanted(want)) # {}

Extra(hit, want) == ~(markers(hit.album) \subseteq markers(Wanted(want)))

Apply(exclude, results, want) ==
    IF exclude = "off" THEN results
    ELSE ElementsAt(results, {i \in 1..Len(results) : ~Extra(results[i], want)})

(* handleMusic: q, or else the artist and album as text; to browse is to    *)
(* search for what the operator configured, if anything.                    *)
MusicQuery(sent, rssQuery) ==
    [sent EXCEPT !.query =
        IF @ # NoName THEN @
        ELSE IF sent.album # NoName THEN sent.album
        ELSE IF sent.artist # NoName THEN sent.artist ELSE rssQuery]

(* Handler.search and indexer.Search, given what a backend prints.          *)
search(exclude, lines, want) ==
    IF SkipQuery(exclude, want) \/ want.query = NoName THEN <<>>
    ELSE Apply(exclude, filterResults(runSearch(lines), want), want)

-----------------------------------------------------------------------------
(* Pages.                                                                   *)

(* A bug: the total is that of the page.                                    *)
PaginateForgetting(results, offset, limit) ==
    LET end == IF limit > 0 /\ offset + limit < Len(results) THEN offset + limit
               ELSE Len(results)
        page == IF offset >= Len(results) THEN <<>> ELSE SubSeq(results, offset + 1, end)
    IN  [items |-> page, offset |-> offset, total |-> Len(page)]

paginate(results, offset, limit) ==
    LET end == IF limit > 0 /\ offset + limit < Len(results) THEN offset + limit
               ELSE Len(results)
    IN  [items |-> IF offset >= Len(results) THEN <<>> ELSE SubSeq(results, offset + 1, end),
         offset |-> offset, total |-> Len(results)]

(* A bug: every search is a new upload.                                     *)
PubDateNow(url, now) == now

(* stablePubDate: of all its distinguishes, that a URL has one date.        *)
PubDate(url, now) == url

EstimateSizeBytes(tracks) == tracks * trackSize

(* A size or a count of zero is left out of the link and of the NZB.        *)
Given(release) == [field \in {"url", "name"} \cup
                       {f \in {"size", "tracks"} : release[f] > 0} |-> release[field]]

Blank == [url |-> NoName, name |-> NoName, size |-> 0, tracks |-> 0]
Read(given) ==
    [field \in DOMAIN Blank |-> IF field \in DOMAIN given THEN given[field] ELSE Blank[field]]

(* NewznabXMLPage: the title, and a download link that carries the rest.    *)
Item(hit, now) ==
    LET title == <<hit.artist.whole, hit.album>>
    IN  [title |-> title, date |-> PubDate(hit.url, now),
         link |-> Given([url |-> hit.url, name |-> title, tracks |-> hit.tracks,
                         size |-> EstimateSizeBytes(hit.tracks)])]

-----------------------------------------------------------------------------
(* From the link to the job.                                                *)

GenerateNZBRelease(release) == Given(release)
ParseNZBMeta(nzb) == Read(nzb)

(* handleGet.                                                               *)
handleGet(link) ==
    LET release == Read(link)
    IN  GenerateNZBRelease(
            [release EXCEPT !.name = IF @ = NoName THEN release.url ELSE @])

IsValidSpotifyURL(url) == url.kind \in {"track", "album", "playlist"}

(* handleAddURL for mode=addfile, as far as the NZB determines the job.     *)
Job(nzb) ==
    LET release == ParseNZBMeta(nzb)
    IN  [url |-> release.url, filename |-> release.name, size |-> release.size,
         trackCount |-> release.tracks]
=============================================================================
