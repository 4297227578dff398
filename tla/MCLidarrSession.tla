-------------------------- MODULE MCLidarrSession --------------------------
(* Model-checking instance of LidarrSession.                                *)
EXTENDS LidarrSession

CONSTANTS a, b, ab, dots, studio, live, xlive, single, u1, u2, u3, u4, u5, u6, u7

Credit(whole, parts) == [whole |-> whole, parts |-> parts]
A == Credit(a, <<a>>)
B == Credit(b, <<b>>)
Both == Credit(ab, <<a, b>>)

Line(artist, album, name, entity, id, kind, tracks) ==
    [artist |-> artist, album |-> album, name |-> name, entity |-> entity,
     url |-> [id |-> id, kind |-> kind], tracks |-> tracks]

(* The album as Python prints it; a track of it, credited to a guest too;   *)
(* the live album, as the CLI prints it; a single; a track of no album.     *)
Album == Line(A, studio, NoName, "album", u1, "album", 2)
Track == Line(Both, studio, NoName, "track", u2, "track", 1)
LiveAlbum == Line(A, NoName, live, "", u3, "album", 0)
Single == Line(B, single, NoName, "", u4, "track", 1)
Stray == Line(A, NoName, NoName, "track", u5, "track", 1)

(* The live album in another spelling: a track of it, and the album.        *)
LiveTrack == Line(A, xlive, NoName, "track", u6, "track", 1)
PlainAlbum == Line(A, xlive, NoName, "album", u7, "album", 1)

ListsOf(S, n) == UNION {[1..k -> S] : k \in 0..n}
AllPython == {l \in ListsOf({Album, Track, LiveAlbum, Single}, 3) :
                 /\ \A i, j \in DOMAIN l : l[i] = l[j] => i = j
                 /\ Len(l) = 3 => l[1] = Track}
    \cup {<<LiveTrack, LiveAlbum>>, <<LiveTrack, LiveAlbum, PlainAlbum>>}
AllCLI == {<<>>, <<Stray, Track, Album>>}

Search(query, artist, album) == [query |-> query, artist |-> artist, album |-> album]
AllRequests == {
    Search(NoName, a, studio), Search(NoName, b, NoName), Search(live, NoName, NoName),
    Search(NoName, NoName, NoName), Search(NoName, dots, live)}

AllNames == {a, b, ab, dots, studio, live, xlive, single}
Letters == [name \in AllNames |-> CASE name = live -> xlive [] name = dots -> NoName
                                     [] OTHER -> name]
PartOf == {<<name, name>> : name \in AllNames} \cup {<<studio, xlive>>}
AllMarkers == [name \in AllNames |-> IF name = live THEN {"live"} ELSE {}]
=============================================================================
