------------------------------ MODULE LazyWheel ------------------------------
(***************************************************************************)
(* poetry.inspection.lazy_wheel: the metadata of a wheel are read with      *)
(* range requests into a sparse file, which ZipFile then takes for the      *)
(* wheel.  Bytes are counted in units: a byte of the wheel is its place.    *)
(***************************************************************************)
EXTENDS Integers, Sequences, SequencesExt, FiniteSetsExt

CONSTANTS
  InitialChunk,   \* LazyWheelOverHTTP._initial_chunk_length()
  Unwritten       \* what truncate() fills the file with

(* A wheel and what its server does.  The end of a zip file is its          *)
(* directory, of one unit here, and a comment of another.                   *)
Wheel ==
  {w \in [length   : Nat,
          start    : Nat,         \* of METADATA, which goes up to
          end      : Nat,         \* the next entry or the directory
          entries  : Nat,         \* where the directory of all entries is
          comment  : BOOLEAN,
          readable : BOOLEAN,     \* a zip file with METADATA in it
          tail     : {"served", "refused", "unsatisfiable", "whole", "fromStart", "unnamed"},
          ranges   : BOOLEAN,     \* "Accept-Ranges: bytes" in its headers
          honored  : BOOLEAN] :   \* does it answer requests for a range by the range?
     w.start < w.end /\ w.end <= w.entries /\ w.entries < w.length}

VARIABLES
  wheel,      \* that is being read
  at,         \* how far LazyWheelOverHTTP has got
  length,     \* _length, 0 if it is not known
  content,    \* of the temporary file
  left, right,    \* of MergeIntervals
  todo,       \* what is still going to be read, as <<start, stop>>
  fetched,    \* [bytes -> Nat]: how often a byte was sent
  noTails     \* _domains_without_negative_range: is the domain in it?

file == <<length, content, left, right, fetched>>
lazyVars == <<wheel, at, todo, noTails, file>>

-----------------------------------------------------------------------------
(* MergeIntervals: left[k] .. right[k] are the intervals that were fetched. *)

(* Bug: an interval that ends where the needed one begins is left out. *)
BugAfter(s, x) == Cardinality({k \in DOMAIN s : s[k] <= x})
BisectLeft(s, x) == Cardinality({k \in DOMAIN s : s[k] < x})
(* Bug: an interval that begins where the needed one ends is left out. *)
BugBefore(s, x) == Cardinality({k \in DOMAIN s : s[k] < x})
BisectRight(s, x) == Cardinality({k \in DOMAIN s : s[k] <= x})

(* _merge(): with the intervals from lo + 1 to hi, those that start .. end  *)
(* overlaps.  The gaps between them are fetched.                            *)
Merge(start, end, lo, hi) ==
  LET lslice == SubSeq(left, lo + 1, hi)
      rslice == SubSeq(right, lo + 1, hi)
      first == IF lslice = <<>> THEN start ELSE Min({start, Head(lslice)})
      last == IF rslice = <<>> THEN end ELSE Max({end, Last(rslice)})
      gaps == [k \in 1 .. Len(lslice) + 1 |->
                 <<IF k = 1 THEN first ELSE rslice[k - 1] + 1,
                   IF k = Len(lslice) + 1 THEN last ELSE lslice[k] - 1>>]
      Spliced(s, x) ==
        SubSeq(s, 1, lo) \o <<x>> \o SubSeq(s, Max({lo, hi}) + 1, Len(s))
  IN [fetch |-> {g \in {gaps[k] : k \in DOMAIN gaps} : g[1] <= g[2]},
      left  |-> Spliced(left, first),
      right |-> Spliced(right, last)]

MinimalIntervalsCovering(start, end) ==
  Merge(start, end, BisectLeft(right, start), BisectRight(left, end))

Covered == UNION {left[k] .. right[k] : k \in DOMAIN left}

-----------------------------------------------------------------------------
(* LazyFileOverHTTP. *)

Bytes == 0 .. wheel.length - 1

(* A file of which the bytes from first to last are written at position p.  *)
Written(f, p, first, last) ==
  [b \in DOMAIN f |-> IF b \in p .. p + last - first THEN first + b - p ELSE f[b]]

Sent(first, last) == [b \in DOMAIN fetched |->
                        IF b \in first .. last THEN fetched[b] + 1 ELSE fetched[b]]

(* A server that ignores ranges sends the whole wheel, which is noticed     *)
(* unless that was the range.                                               *)
IsRespected(g) == wheel.honored \/ g = <<0, wheel.length - 1>>

(* _ensure_downloaded(): the bytes from start to stop - 1.  Every part that *)
(* is fetched is written where the whole begins, a later one over those     *)
(* before it.                                                               *)
PlaceOf(start, g) == start

FetchedParts(start, stop, parts) ==
  /\ content' =
       [b \in DOMAIN content |->
          LET writers == {g \in parts : b \in PlaceOf(start, g) .. PlaceOf(start, g) + g[2] - g[1]}
          IN  IF writers = {} THEN content[b]
              ELSE LET last == CHOOSE g \in writers : \A h \in writers : h[1] <= g[1]
                   IN  last[1] + b - PlaceOf(start, last)]
  /\ fetched' = [b \in DOMAIN fetched |-> fetched[b] + Cardinality({g \in parts : b \in g[1] .. g[2]})]

EnsureDownloaded(start, stop, next) ==
  LET m == MinimalIntervalsCovering(start, stop - 1)
  IN IF \A g \in m.fetch : IsRespected(g)
     THEN /\ FetchedParts(start, stop, m.fetch)
          /\ left' = m.left /\ right' = m.right
          /\ at' = next
     ELSE /\ at' = "unsupported"         \* HTTPRangeRequestNotRespectedError
          /\ UNCHANGED <<content, fetched, left, right>>

-----------------------------------------------------------------------------
(* LazyWheelOverHTTP. *)

(* What ZipFile reads when it is opened: the end of the file, for a comment *)
(* more of it, and the directory of the entries.                            *)
Opened(w) ==
  <<<<w.length - 1, w.length>>>>
    \o (IF w.comment THEN <<<<Max({w.length - 3, 0}), w.length>>>> ELSE <<>>)
    \o (IF w.entries < w.length - 1 THEN <<<<w.entries, w.length - 1>>>> ELSE <<>>)

(* read_metadata(): opened once, and again to find METADATA, which is       *)
(* fetched and then read.                                                   *)
ReadMetadata(w) ==
  Opened(w) \o Opened(w) \o (IF w.readable THEN <<<<w.start, w.end>>, <<w.start, w.end>>>> ELSE <<>>)

NewFile(n) ==
  /\ length' = n
  /\ content' = [b \in Bytes |-> Unwritten]

(* A wheel is asked for its metadata.                                       *)
Begin(w, reads) ==
  /\ wheel' = w
  /\ at' = IF noTails THEN "head" ELSE "tail"
  /\ todo' = reads
  /\ length' = 0
  /\ content' = [b \in 0 .. w.length - 1 |-> Unwritten]
  /\ fetched' = [b \in 0 .. w.length - 1 |-> 0]
  /\ left' = <<>> /\ right' = <<>>
  /\ UNCHANGED noTails

SentTail(w) == Min({InitialChunk, w.length})

(* _try_initial_chunk_request() has got bytes from first on, as many as are *)
(* left or as were asked for; they are written to the end of the file.      *)
TakeTail(first) ==
  LET n == wheel.length - first
  IN /\ first >= 0
     /\ IF n = SentTail(wheel)
        THEN /\ length' = wheel.length
             /\ content' = Written(content, wheel.length - n, first, wheel.length - 1)
             /\ fetched' = Sent(first, wheel.length - 1)
             /\ left' = <<first>> /\ right' = <<wheel.length - 1>>
             /\ at' = "read"
        ELSE at' = "unsupported" /\ UNCHANGED file   \* the assertion fails
     /\ UNCHANGED noTails

(* The length is known, and the end is fetched in a second request.         *)
OnlyLength ==
  length' = wheel.length /\ at' = "end" /\ UNCHANGED <<content, left, right, fetched>>

IsTooMuch == wheel.length < InitialChunk

ServedTail ==
  /\ \/ wheel.tail = "served"
     \/ wheel.tail = "unsatisfiable" /\ ~ IsTooMuch
  /\ TakeTail(wheel.length - SentTail(wheel))

(* 416: the answer has the length of the wheel.                             *)
Unsatisfiable ==
  wheel.tail = "unsatisfiable" /\ IsTooMuch /\ OnlyLength /\ UNCHANGED noTails

(* 200 instead of 206.                                                      *)
WholeWheel ==
  /\ wheel.tail = "whole"
  /\ IF wheel.ranges /\ wheel.length <= InitialChunk
     THEN TakeTail(0)
     ELSE at' = "unsupported" /\ UNCHANGED <<noTails, file>>

(* "-10" is taken for "0-10".                                               *)
FromStart ==
  /\ wheel.tail = "fromStart"
  /\ IF wheel.length > InitialChunk
     THEN OnlyLength /\ noTails' = TRUE
     ELSE TakeTail(0)

Unnamed ==
  wheel.tail = "unnamed" /\ at' = "unsupported" /\ UNCHANGED <<noTails, file>>

Refused ==
  wheel.tail = "refused" /\ at' = "head" /\ noTails' = TRUE /\ UNCHANGED file

TryInitialChunkRequest ==
  /\ at = "tail"
  /\ (ServedTail \/ Unsatisfiable \/ WholeWheel \/ FromStart \/ Unnamed \/ Refused)
  /\ UNCHANGED <<wheel, todo>>

(* _content_length_from_head()                                              *)
ContentLengthFromHead ==
  /\ at = "head"
  /\ IF wheel.ranges
     THEN OnlyLength
     ELSE at' = "unsupported" /\ UNCHANGED file
  /\ UNCHANGED <<wheel, todo, noTails>>

FetchEnd ==
  /\ at = "end"
  /\ EnsureDownloaded(Max({0, length - InitialChunk}), length, "read")
  /\ UNCHANGED <<wheel, todo, noTails, length>>

(* read(), by ZipFile, or _ensure_downloaded() in _prefetch_metadata().     *)
Read ==
  /\ at = "read" /\ todo # <<>>
  /\ EnsureDownloaded(Head(todo)[1], Min({Head(todo)[2], length}), "read")
  /\ todo' = Tail(todo)
  /\ UNCHANGED <<wheel, noTails, length>>

(* METADATA are parsed, or there are none (InvalidWheelError).              *)
Parse ==
  /\ at = "read" /\ todo = <<>>
  /\ at' = IF wheel.readable THEN "metadata" ELSE "unsupported"
  /\ UNCHANGED <<wheel, todo, noTails, file>>

(* A request fails for good, whatever was asked for.                        *)
Broken ==
  /\ at \in {"tail", "head", "end", "read"}
  /\ at' = "unsupported"
  /\ UNCHANGED <<wheel, todo, noTails, file>>

LazyStep ==
  TryInitialChunkRequest \/ ContentLengthFromHead \/ FetchEnd \/ Read \/ Parse \/ Broken

(* Without a repository: whoever has the file reads what he likes.          *)
LazyInit(w, reads) ==
  /\ wheel = w /\ at = "tail" /\ todo = reads /\ length = 0 /\ noTails = FALSE
  /\ content = [b \in 0 .. w.length - 1 |-> Unwritten]
  /\ fetched = [b \in 0 .. w.length - 1 |-> 0]
  /\ left = <<>> /\ right = <<>>

-----------------------------------------------------------------------------
IsLazy == at \in {"tail", "head", "end", "read", "metadata", "unsupported"}

(* MergeIntervals keeps intervals apart and in order, and knows what was    *)
(* sent: no byte is sent twice, and none is missing that was asked for.     *)
NothingIsSentTwice ==
  IsLazy =>
    /\ \A k \in DOMAIN left : left[k] <= right[k]
    /\ \A k \in DOMAIN left : k + 1 \in DOMAIN left => right[k] < left[k + 1]
    /\ Len(left) = Len(right)
    /\ \A b \in Bytes : fetched[b] = IF b \in Covered THEN 1 ELSE 0

(* Every byte that counts as downloaded is in the file, at its place.       *)
BytesAreRight == IsLazy => \A b \in Covered : content[b] = b
=============================================================================
