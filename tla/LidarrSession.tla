---------------------------- MODULE LidarrSession ----------------------------
(***************************************************************************)
(* Lidarr and the indexer: searches that are paged, releases that are       *)
(* grabbed, downloads that fail and are put on the blocklist.  Every page   *)
(* is a search of its own, and the two search backends need not agree.      *)
(*                                                                         *)
(* What Lidarr does is external, modelled from what the code relies on.     *)
(***************************************************************************)
EXTENDS ReleaseFeed, ApiRoutes

CONSTANTS
    PythonLists, CLILists,  \* what the backends may print
    Requests,               \* what Lidarr may search for
    Excludes, Limits,       \* settings of the filter, page sizes asked for
    rssQuery,
    MaxSearches

Lines == UNION {{lines[i] : i \in DOMAIN lines} : lines \in PythonLists \cup CLILists}

(* The releases in them: a line without a URL is none.                      *)
Found == {parseSearchLine(line) : line \in {l \in Lines : l.url # NoName}}

(* A title is never empty: a dash stands between its two names.             *)
ASSUME SessionAssumption ==
    /\ Limits \subseteq Nat
    /\ PythonLists \cup CLILists \subseteq Seq(Lines)
    /\ \A hit \in Found : <<hit.artist.whole, hit.album>> # NoName

VARIABLES
    printed,    \* what each backend prints for the search
    sent,       \* what Lidarr sends
    exclude,
    limit,
    pc,         \* "start", "paging", "listed", "failed", or "foreign" once
                \* somebody else has sent a request
    now,        \* the number of searches so far
    offset, feed, total,
    answered,   \* the backends that answered this search's pages
    jobs,       \* the jobs in the queue
    grabs,      \* the items Lidarr has grabbed
    blocklist,
    reply       \* that request, and what answered it

vars == <<printed, sent, exclude, limit, pc, now, offset, feed, total, answered,
          jobs, grabs, blocklist, reply>>
settings == <<printed, sent, exclude, limit>>

Get(path, mode, t, key) ==
    [method |-> "GET", path |-> path, query |-> [mode |-> mode, t |-> t, apikey |-> key],
     form |-> [mode |-> "", apikey |-> ""]]

CapsRequest == Get("/api/newznab", "", "caps", "")
SearchRequest == Get("/api/newznab", "", "music", "right")
GetRequest == Get("/api/newznab", "", "get", "right")
AddFileRequest == [Get("/api", "addfile", "", "right") EXCEPT !.method = "POST"]

Init ==
    /\ printed = NoName /\ sent = NoName /\ exclude = "off" /\ limit = 0
    /\ pc = "start" /\ now = 1
    /\ offset = 0 /\ feed = <<>> /\ total = 0
    /\ answered = {}
    /\ jobs = {} /\ grabs = <<>> /\ blocklist = {}
    /\ reply = NoName

want == MusicQuery(sent, rssQuery)

Results(backend) == search(exclude, printed[backend], want)

(* Client.SearchMetadata: Python, if it works and finds anything.           *)
Backends ==
    {"cli"} \cup (IF runSearch(printed["python"]) = <<>> THEN {} ELSE {"python"})

Items(results) == [i \in 1..Len(results) |-> Item(results[i], now)]

(* Lidarr looks at the capabilities, without a key, and begins to search.   *)
Connect ==
    /\ pc = "start" /\ Serve(CapsRequest) = "caps"
    /\ pc' = "paging"
    /\ printed' \in [python : PythonLists, cli : CLILists]
    /\ sent' \in Requests
    /\ exclude' \in Excludes
    /\ limit' \in Limits
    /\ UNCHANGED <<now, offset, feed, total, answered, jobs, grabs, blocklist, reply>>

(* The next page.  Lidarr stops when it has as many items as there are, or  *)
(* when a page brings none.                                                 *)
RequestPage ==
    /\ pc = "paging" /\ Serve(SearchRequest) = "music"
    /\ \E backend \in Backends :
          LET page == paginate(Results(backend), offset, limit)
          IN  /\ feed' = feed \o Items(page.items)
              /\ offset' = offset + Len(page.items)
              /\ total' = page.total
              /\ answered' = answered \cup {backend}
              /\ pc' = IF page.items = <<>> \/ offset' >= page.total THEN "listed"
                       ELSE "paging"
    /\ UNCHANGED <<settings, now, jobs, grabs, blocklist, reply>>

(* Both backends fail: an error document, and the end of the search.        *)
SearchFails ==
    /\ pc = "paging"
    /\ pc' = "failed"
    /\ UNCHANGED <<settings, now, offset, feed, total, answered, jobs, grabs,
                   blocklist, reply>>

SearchAgain ==
    /\ pc \in {"listed", "failed"} /\ now < MaxSearches
    /\ pc' = "paging" /\ now' = now + 1
    /\ offset' = 0 /\ feed' = <<>> /\ total' = 0 /\ answered' = {}
    /\ UNCHANGED <<settings, jobs, grabs, blocklist, reply>>

Blocked(item) ==
    \E b \in blocklist : b.title = item.title /\ b.date = item.date

(* Lidarr follows a download by the name of the job.                        *)
Followed(item) == \E job \in jobs : job.filename = item.title

(* The NZB is fetched and uploaded; addfile makes a job unless there is one *)
(* for that URL.                                                            *)
Grab(item) ==
    LET job == Job(handleGet(item.link))
    IN  /\ pc = "listed"
        /\ Serve(GetRequest) = "get" /\ Serve(AddFileRequest) = "addfile"
        /\ ~Blocked(item) /\ ~Followed(item)
        /\ grabs' = Append(grabs, item)
        /\ jobs' = IF IsValidSpotifyURL(job.url) /\ (\A j \in jobs : j.url # job.url)
                   THEN jobs \cup {job} ELSE jobs
        /\ UNCHANGED <<settings, pc, now, offset, feed, total, answered, blocklist, reply>>

(* A failed job is seen in the history, and what was grabbed under its name *)
(* is blocklisted.                                                          *)
Fail(job) ==
    /\ jobs' = jobs \ {job}
    /\ blocklist' = blocklist \cup
          {[title |-> grabs[i].title, date |-> grabs[i].date] :
              i \in {k \in 1..Len(grabs) : grabs[k].title = job.filename}}
    /\ UNCHANGED <<settings, pc, now, offset, feed, total, answered, grabs, reply>>

(* Somebody else sends a request.                                           *)
Foreign(r) ==
    /\ pc = "start"
    /\ pc' = "foreign"
    /\ reply' = [request |-> r, handler |-> Serve(r)]
    /\ UNCHANGED <<settings, now, offset, feed, total, answered, jobs, grabs, blocklist>>

Next ==
    \/ Connect \/ RequestPage \/ SearchFails \/ SearchAgain
    \/ \E i \in 1..Len(feed) : Grab(feed[i])
    \/ \E job \in jobs : Fail(job)
    \/ \E r \in ApiRequests : Foreign(r)

Spec == Init /\ [][Next]_vars

-----------------------------------------------------------------------------
(* The pages of a search, put together, are the feed: nothing twice,        *)
(* nothing left out, if one backend answered them all.                      *)
PagesCoverFeed ==
    \A backend \in answered :
        pc = "listed" /\ answered = {backend} => feed = Items(Results(backend))

(* The albums whose release a track belongs to, among the hits that match.  *)
AlbumsOf(hits, i) ==
    {j \in 1..Len(hits) : /\ matches(hits[j], want) /\ EntityKind(hits[j]) = "album"
                          /\ releaseKey(hits[j]) = releaseKey(hits[i])}

(* A track is covered by its albums before the exclude filter looks at      *)
(* them: if each is spelled with a marker nobody asked for, all are lost.   *)
Swallowed(hits, i) ==
    /\ exclude # "off" /\ EntityKind(hits[i]) # "album"
    /\ AlbumsOf(hits, i) # {}
    /\ \A j \in AlbumsOf(hits, i) : Extra(hits[j], want)

(* The hit itself is on offer, or an album of the same release.             *)
Offers(hits, i) ==
    \E k \in 1..Len(feed) : \E j \in 1..Len(hits) :
        /\ feed[k].link.url = hits[j].url
        /\ releaseKey(hits[j]) = releaseKey(hits[i])
        /\ j = i \/ EntityKind(hits[j]) = "album"

(* Every hit that is what was asked for, and not a variant that was not, is *)
(* on offer: by itself, or by an album of the same release.  A track is not *)
(* offered beside its album, which alone Lidarr can import.  The exception  *)
(* is the code's (spotify.go:77-92, then variant.go:144-158): Lidarr gets   *)
(* nothing of a track of "X Live" if its only album is spelled "X (Live)".  *)
EveryReleaseOffered ==
    \A backend \in answered :
        pc = "listed" /\ answered = {backend} /\ want.query # NoName
            /\ ~SkipQuery(exclude, want) =>
        LET hits == runSearch(printed[backend])
        IN  \A i \in 1..Len(hits) :
                matches(hits[i], want) /\ (exclude = "off" \/ ~Extra(hits[i], want)) =>
                    Offers(hits, i) \/ Swallowed(hits, i)

(* A release that failed is not grabbed again, and one that is being        *)
(* downloaded is not grabbed twice: its name and its date survive the way   *)
(* from the feed to the job and back.                                       *)
NoGrabLoop ==
    \A i, j \in 1..Len(grabs) :
        grabs[i].link.url = grabs[j].link.url /\ grabs[i].title = grabs[j].title => i = j

(* What must work before Lidarr has a key works without one, through every  *)
(* group it passes, and nothing else does.                                  *)
ServedWithoutKey ==
    pc = "foreign" /\ KeyOf(reply.request) # "right" =>
        LET r == reply.request
            mode == ModeOf(r)
        IN  IF r.path \in {"/api", "/api/sabnzbd"} /\ mode \in {"version", "auth"}
            THEN reply.handler = mode
            ELSE IF r.path = "/api/newznab" /\ r.method = "GET" /\ mode = "" /\ r.query.t = "caps"
            THEN reply.handler = "caps"
            ELSE IF r.path = "/api/verify-relay" /\ r.method = "GET"
            THEN reply.handler = "relay"
            ELSE reply.handler \in {"401", "no route", "unknown mode"}
=============================================================================
