---------------------------- MODULE HostedMedia ----------------------------
(***************************************************************************)
(* Generated files under temporary links (ephemeral_media.rs): guest        *)
(* results can only be edited to show a link. What has expired is dropped   *)
(* when something is published; what is oldest makes room for it. Telegram  *)
(* may fetch a part of a file.                                             *)
(*                                                                         *)
(* A link is the number of its publication. Publishing and looking up hold  *)
(* the lock of the map, so each is one step.                               *)
(***************************************************************************)
EXTENDS Naturals, Sequences, FiniteSets

CONSTANTS
  Life,       \* TTL, in ticks
  MaxItem,    \* MAX_ITEM_BYTES
  MaxTotal,   \* MAX_TOTAL_BYTES
  MaxUsize,   \* the largest usize
  MaxNow,     \* bound: ticks of the clock
  MaxLinks    \* bound: publications

ASSUME MediaAssumption ==
  /\ Life \in Nat \ {0} /\ MaxNow \in Nat /\ MaxLinks \in Nat
  /\ MaxItem \in Nat /\ MaxTotal \in Nat /\ MaxItem <= MaxTotal
  /\ MaxUsize \in Nat /\ MaxTotal <= MaxUsize

VARIABLES
  now,        \* the clock
  items,      \* everything published: its size and when it expires
  media,      \* the links in the map
  served      \* the last request and its response

mediaVars == <<now, items, media, served>>

\* A request names the first and the last byte, or leaves the last one open, or
\* has no range that is understood.
Ranges ==
  {r \in [form : {"none", "open", "closed"}, first : 0..MaxUsize, last : 0..MaxUsize] :
     /\ r.form = "none" => r.first = 0
     /\ r.form # "closed" => r.last = 0}

MediaTypeOK ==
  /\ now \in 0..MaxNow
  /\ items \in Seq([size : 1..MaxItem, expires : Nat])
  /\ media \subseteq DOMAIN items
  /\ served \in [link : 0..Len(items), range : Ranges, at : Nat, status : {0, 200, 206, 404},
                 from : Nat, to : Nat]

NoRange == [form |-> "none", first |-> 0, last |-> 0]

Nobody == [link |-> 0, range |-> NoRange, at |-> 0, status |-> 0, from |-> 0, to |-> 0]

MediaInit == now = 0 /\ items = <<>> /\ media = {} /\ served = Nobody

-----------------------------------------------------------------------------
(* Publishing                                                              *)

Bytes(links) ==
  LET UpTo[l \in 0 .. Len(items)] ==
        IF l = 0 THEN 0 ELSE UpTo[l - 1] + (IF l \in links THEN items[l].size ELSE 0)
  IN  UpTo[Len(items)]

Live(links) == {l \in links : items[l].expires > now}

\* Mutant: the largest makes room first.
Largest(links) == {l \in links : \A k \in links : items[k].size <= items[l].size}

Oldest(links) == {l \in links : \A k \in links : items[l].expires <= items[k].expires}

\* What is left of links once the first n of a sequence are removed.
Remaining(links, gone, n) == links \ {gone[i] : i \in 1 .. n}

TooMuch(links, size) == Bytes(links) + size > MaxTotal

\* While there is too much with the new file, an oldest link goes. A map has no order
\* for equals.
MakesRoom(gone, links, size) ==
  /\ \A i \in DOMAIN gone :
       LET there == Remaining(links, gone, i - 1)
       IN  TooMuch(there, size) /\ gone[i] \in Oldest(there)
  /\ LET left == Remaining(links, gone, Len(gone)) IN left = {} \/ ~TooMuch(left, size)

LeftAfterRoom(links, size) ==
  LET removals == UNION {[1 .. n -> links] : n \in 0 .. Cardinality(links)}
  IN  {Remaining(links, gone, Len(gone)) :
         gone \in {g \in removals : MakesRoom(g, links, size)}}

Publish(size) ==
  /\ Len(items) < MaxLinks
  /\ size \in 1..MaxItem
  /\ items' = Append(items, [size |-> size, expires |-> now + Life])
  /\ \E left \in LeftAfterRoom(Live(media), size) : media' = left \cup {Len(items) + 1}
  /\ UNCHANGED <<now, served>>

\* Nothing, or too much: bail.
PublishRefused(size) ==
  /\ size \notin 1..MaxItem
  /\ UNCHANGED mediaVars

-----------------------------------------------------------------------------
(* Serving                                                                 *)

\* Mutant: the last byte is taken for the end.
EndExcluding(range, total) ==
  IF range.form = "open" THEN total ELSE IF range.last > total THEN total ELSE range.last

\* The end of a range, behind its last byte; checked_add finds no end behind the
\* largest usize.
End(range, total) ==
  IF range.form = "open" THEN total
  ELSE IF range.last + 1 > total THEN total ELSE range.last + 1

\* parse_range: a part that starts within the file and is not empty.
Understood(range, total) ==
  /\ range.form # "none"
  /\ ~(range.form = "closed" /\ range.last = MaxUsize)
  /\ range.first < End(range, total) /\ range.first < total

Found(l) == l \in media /\ items[l].expires > now

Serve(l, range) ==
  /\ l \in DOMAIN items
  /\ LET total == items[l].size
     IN  served' =
           IF ~Found(l)
           THEN [link |-> l, range |-> range, at |-> now, status |-> 404, from |-> 0, to |-> 0]
           ELSE IF Understood(range, total)
           THEN [link |-> l, range |-> range, at |-> now, status |-> 206,
                 from |-> range.first, to |-> End(range, total)]
           ELSE [link |-> l, range |-> range, at |-> now, status |-> 200, from |-> 0, to |-> total]
  /\ UNCHANGED <<now, items, media>>

MediaTick == now < MaxNow /\ now' = now + 1 /\ UNCHANGED <<items, media, served>>

MediaNext ==
  \/ MediaTick
  \/ \E size \in 0..(MaxItem + 1) : Publish(size) \/ PublishRefused(size)
  \/ \E l \in DOMAIN items, range \in Ranges : Serve(l, range)

MediaSpec == MediaInit /\ [][MediaNext]_mediaVars

-----------------------------------------------------------------------------
(* Properties                                                              *)

\* The files in memory never take more than the limit (README.md:97), and a link is
\* gone before its time only when it and what was published behind it are more than
\* that: room is never made without need, nor at the cost of a newer link.
GoneForNeed ==
  /\ Bytes(media) <= MaxTotal
  /\ \A l \in DOMAIN items \ media :
       items[l].expires > now =>
         Bytes({k \in DOMAIN items : items[k].expires >= items[l].expires}) > MaxTotal

\* A response holds bytes of its file that were asked for: from the first to the
\* last one there is, or the whole file when the range is not understood; and it is
\* given before the end of the link's ten minutes (README.md:97, "at most").
Satisfiable(range, total) ==
  /\ range.form # "none"
  /\ range.first < total
  /\ range.form = "open" \/ (range.first <= range.last /\ range.last < MaxUsize)
Asked(range, total) ==
  {b \in 0..(total - 1) :
     Satisfiable(range, total) =>
       b >= range.first /\ (range.form = "open" \/ b <= range.last)}
PartsAreExact ==
  served.status \in {200, 206} =>
    LET total == items[served.link].size
    IN  {b \in 0..(total - 1) : served.from <= b /\ b < served.to} = Asked(served.range, total)
        /\ served.to <= total
        /\ served.at < items[served.link].expires
=============================================================================
