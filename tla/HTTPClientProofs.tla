---- MODULE HTTPClientProofs ----
(***************************************************************************)
(* Proofs about HTTPClient, for any number of threads, URLs, entries,      *)
(* versions and files: whatever way a fetch takes, the responses that are  *)
(* open and the temporary files are those that the threads have at hand,   *)
(* an entry stays under a lock that was left on it, nothing is handed out  *)
(* that is older than what was asked for, and ETags fit their bodies, but  *)
(* for the exceptions that the properties name.                            *)
(*                                                                         *)
(* The argument: an open file belongs to one thread at most, and where a   *)
(* thread is within its call says whether it has one and of which kind.    *)
(* And the body of an entry is the newest that was ever stored, so an      *)
(* entry that takes the place of another is never older than what the      *)
(* server said of that one.                                                *)
(***************************************************************************)
EXTENDS HTTPClient, TLAPS

States == {"idle", "lookup", "valid", "release", "condition", "validate", "plain", "update",
           "reopen", "store", "cached", "new", "done"}

Typed ==
    /\ at \in [Threads -> States] /\ url \in [Threads -> Urls]
    /\ hand \in [Threads -> Numbers \cup {0}]
    /\ reply \in [Threads -> Nat] /\ etag \in [Threads -> Nat] /\ asked \in [Threads -> Nat]
    /\ streams \subseteq [number : Numbers, of : Entries \cup {NoEntry}]
    /\ temps \subseteq Numbers
    /\ content \in [Ids -> [body : Nat, etag : Nat]]
    /\ version \in [Urls -> Nat] /\ newest \in [Urls -> Nat] /\ late \subseteq Urls
    /\ cached \subseteq Entries /\ open \subseteq Threads \X Entries

\* What the thread has at hand, when it has something.
Numbered(S, n) == CHOOSE s \in S : s.number = n
Has(t) == Numbered(streams, hand[t])

\* An open file has one entry, and one thread at most.
Handles ==
    /\ \A s, q \in streams : s.number = q.number => s = q
    /\ \A t \in Threads : hand[t] # 0 => \E s \in streams : s.number = hand[t]
    /\ \A t, q \in Threads : hand[t] = hand[q] /\ hand[t] # 0 => t = q

\* NothingLeft, one thread and one file at a time.
Left ==
    /\ \A t \in Threads, e \in Entries : <<t, e>> \in open <=> hand[t] # 0 /\ Has(t).of = e
    /\ ~failed => \A n \in Numbers :
           n \in temps <=> \E t \in Threads : hand[t] = n /\ Has(t).of = NoEntry

\* What each thread has at hand where it is in its call.
AtHandOf(t) ==
    /\ at[t] \in {"idle", "lookup", "condition", "update", "reopen"} => hand[t] = 0
    /\ at[t] \in {"valid", "release", "store", "new"} => hand[t] # 0
    /\ at[t] \in {"valid", "release", "cached"} /\ hand[t] # 0 => Has(t).of # NoEntry
    /\ at[t] \in {"plain", "validate", "store", "new"} /\ hand[t] # 0 => Has(t).of = NoEntry
AtHand == \A t \in Threads : AtHandOf(t)

FInv == Typed /\ Handles /\ Left /\ AtHand

-----------------------------------------------------------------------------
(* Open files.                                                             *)

\* A number that only one has, finds it.
LEMMA Found1 ==
    ASSUME NEW S, \A s, q \in S : s.number = q.number => s = q, NEW s \in S
    PROVE  Numbered(S, s.number) = s
BY DEF Numbered

\* What a thread has at hand is open, and is a body or a temporary file.
LEMMA HasOne ==
    ASSUME Typed, Handles, NEW t \in Threads, hand[t] # 0
    PROVE  /\ Has(t) \in streams /\ Has(t).number = hand[t] /\ Stream(hand[t]) = Has(t)
           /\ Has(t).of \in Entries \cup {NoEntry} /\ hand[t] \in Numbers
<1>1. PICK s \in streams : s.number = hand[t]
    BY DEF Handles
<1>2. Has(t) = s
    BY <1>1, Found1 DEF Handles, Has
<1> QED  BY <1>1, <1>2 DEF Typed, Has, Stream, Numbered

Others(t) == \A q \in Threads \ {t} : hand'[q] = hand[q] /\ (hand[q] # 0 => Has(q)' = Has(q))

\* The number of a file that is opened is nobody's.
LEMMA OpensFile ==
    ASSUME Typed, Handles, NEW t \in Threads, hand[t] = 0, NEW n \in FreeNumbers,
           NEW e \in Entries \cup {NoEntry}, streams' = streams \cup {Opening(n, e)},
           hand' = [hand EXCEPT ![t] = n]
    PROVE  /\ Handles' /\ Others(t) /\ hand'[t] = n /\ n \in Numbers /\ n # 0 /\ Has(t)'.of = e
           /\ \A q \in Threads : hand[q] # n
           /\ streams' \subseteq [number : Numbers, of : Entries \cup {NoEntry}]
<1> DEFINE new == Opening(n, e)
<1>0. streams' = streams \cup {new}
    OBVIOUS
<1>1. new.number = n /\ new.of = e /\ new \in [number : Numbers, of : Entries \cup {NoEntry}]
    BY DEF Opening, FreeNumbers, Free
<1>2. n \in Numbers /\ n # 0 /\ \A s \in streams : s.number # n
    BY DEF FreeNumbers, Free, Numbers
<1> HIDE DEF new
<1>3. \A s, q \in streams' : s.number = q.number => s = q
    BY <1>1, <1>2 DEF Handles, new
<1>4. /\ hand'[t] = n /\ \A q \in Threads \ {t} : hand'[q] = hand[q]
      /\ \A q \in Threads : hand[q] # n
    BY <1>2 DEF Typed, Handles
<1>5. Handles'
    BY <1>1, <1>3, <1>4 DEF Handles, new
<1>6. Numbered(streams', n) = new
    BY <1>0, <1>1, <1>3, Found1
<1>7. \A q \in Threads : hand[q] # 0 => Numbered(streams', hand[q]) = Numbered(streams, hand[q])
    <2> TAKE q \in Threads
    <2> HAVE hand[q] # 0
    <2>1. PICK s \in streams : s.number = hand[q]
        BY DEF Handles
    <2>2. Numbered(streams, s.number) = s
        BY Found1 DEF Handles
    <2>3. Numbered(streams', s.number) = s
        BY <1>3, Found1
    <2> QED  BY <2>1, <2>2, <2>3
<1> QED  BY <1>1, <1>2, <1>4, <1>5, <1>6, <1>7 DEF Has, Others, Typed, new

\* A thread lets its file go, closed or not.
LEMMA LetsGo ==
    ASSUME Typed, Handles, NEW t \in Threads, hand' = [hand EXCEPT ![t] = 0],
           streams' \subseteq streams, \A s \in streams : s.number # hand[t] => s \in streams'
    PROVE  Handles' /\ Others(t) /\ hand'[t] = 0
<1>1. hand'[t] = 0 /\ \A q \in Threads \ {t} : hand'[q] = hand[q]
    BY DEF Typed
<1>2. Handles'
    BY <1>1 DEF Handles
<1>3. \A q \in Threads \ {t} : hand[q] # 0 => Numbered(streams', hand[q]) = Numbered(streams, hand[q])
    <2> TAKE q \in Threads \ {t}
    <2> HAVE hand[q] # 0
    <2>1. PICK s \in streams : s.number = hand[q]
        BY DEF Handles
    <2>2. s \in streams'
        BY <2>1 DEF Handles
    <2>3. Numbered(streams, s.number) = s /\ Numbered(streams', s.number) = s
        BY <1>2, <2>2, Found1 DEF Handles
    <2> QED  BY <2>1, <2>3
<1> QED  BY <1>1, <1>2, <1>3 DEF Others, Has

-----------------------------------------------------------------------------
(* What is locked and what is on disk, as threads open and close files.    *)

LEMMA PairIsNotNoEntry == NoEntry \notin Entries
BY DEF NoEntry, Entries

\* A thread gets the body of an entry.
LEMMA GetsBody ==
    ASSUME Left, NEW t \in Threads, hand[t] = 0, Others(t), NEW e \in Entries,
           hand'[t] \in Numbers, hand'[t] # 0, Has(t)'.of = e, open' = open \cup {<<t, e>>},
           temps' = temps, failed' = failed
    PROVE  Left'
<1>1. \A q \in Threads, d \in Entries : <<q, d>> \in open' <=> hand'[q] # 0 /\ Has(q)'.of = d
    <2> TAKE q \in Threads, d \in Entries
    <2>0. <<q, d>> \in open <=> hand[q] # 0 /\ Has(q).of = d
        BY DEF Left
    <2>1. CASE q # t
        <3>1. <<q, d>> \in open' <=> <<q, d>> \in open
            BY <2>1
        <3> QED  BY <2>0, <2>1, <3>1 DEF Others
    <2>2. CASE q = t
        BY <2>0, <2>2
    <2> QED  BY <2>1, <2>2
<1>2. \A q \in Threads, n \in Numbers :
          hand'[q] = n /\ Has(q)'.of = NoEntry <=> hand[q] = n /\ Has(q).of = NoEntry
    BY PairIsNotNoEntry DEF Others, Numbers
<1> QED  BY <1>1, <1>2 DEF Left

\* A thread gets a temporary file.
LEMMA GetsTemp ==
    ASSUME Left, NEW t \in Threads, hand[t] = 0, Others(t),
           hand'[t] \in Numbers, hand'[t] # 0, \A q \in Threads : hand[q] # hand'[t],
           Has(t)'.of = NoEntry, open' = open, temps' = temps \cup {hand'[t]}, failed' = failed
    PROVE  Left'
<1>1. \A q \in Threads, d \in Entries : <<q, d>> \in open' <=> hand'[q] # 0 /\ Has(q)'.of = d
    <2> TAKE q \in Threads, d \in Entries
    <2>0. <<q, d>> \in open <=> hand[q] # 0 /\ Has(q).of = d
        BY DEF Left
    <2>1. CASE q # t
        <3>1. <<q, d>> \in open' <=> <<q, d>> \in open
            BY <2>1
        <3> QED  BY <2>0, <2>1, <3>1 DEF Others
    <2>2. CASE q = t
        BY <2>0, <2>2, PairIsNotNoEntry
    <2> QED  BY <2>1, <2>2
<1>2. \A q \in Threads \ {t}, n \in Numbers :
          hand'[q] = n /\ Has(q)'.of = NoEntry <=> hand[q] = n /\ Has(q).of = NoEntry
    BY DEF Others, Numbers
<1>3. ASSUME ~failed, NEW n \in Numbers
      PROVE  n \in temps' <=> \E q \in Threads : hand'[q] = n /\ Has(q)'.of = NoEntry
    <2>1. n \in temps <=> \E q \in Threads : hand[q] = n /\ Has(q).of = NoEntry
        BY <1>3 DEF Left
    <2>2. \A q \in Threads : hand[q] = n => q # t
        BY DEF Numbers
    <2> QED  BY <1>2, <2>1, <2>2
<1> QED  BY <1>1, <1>3 DEF Left

\* A thread releases the body of an entry.
LEMMA PutsBody ==
    ASSUME Left, Handles, NEW t \in Threads, hand[t] # 0, Has(t).of # NoEntry, Others(t), hand'[t] = 0,
           open' = open \ {<<t, Has(t).of>>}, temps' = temps, failed' = failed
    PROVE  Left'
<1>1. \A q \in Threads, d \in Entries : <<q, d>> \in open' <=> hand'[q] # 0 /\ Has(q)'.of = d
    <2> TAKE q \in Threads, d \in Entries
    <2>0. <<q, d>> \in open <=> hand[q] # 0 /\ Has(q).of = d
        BY DEF Left
    <2>1. CASE q # t
        <3>1. <<q, d>> \in open' <=> <<q, d>> \in open
            BY <2>1
        <3> QED  BY <2>0, <2>1, <3>1 DEF Others
    <2>2. CASE q = t
        BY <2>0, <2>2
    <2> QED  BY <2>1, <2>2
<1>2. \A q \in Threads, n \in Numbers :
          hand'[q] = n /\ Has(q)'.of = NoEntry <=> hand[q] = n /\ Has(q).of = NoEntry
    BY DEF Others, Numbers
<1> QED  BY <1>1, <1>2 DEF Left

\* A thread deletes its temporary file, or forgets it when storing fails.
LEMMA PutsTemp ==
    ASSUME Left, Handles, NEW t \in Threads, hand[t] # 0, Has(t).of = NoEntry, Others(t), hand'[t] = 0,
           open' = open,
           failed' = TRUE \/ (failed' = failed /\ temps' = temps \ {hand[t]})
    PROVE  Left'
<1>1. \A q \in Threads, d \in Entries : <<q, d>> \in open' <=> hand'[q] # 0 /\ Has(q)'.of = d
    <2> TAKE q \in Threads, d \in Entries
    <2>0. <<q, d>> \in open <=> hand[q] # 0 /\ Has(q).of = d
        BY DEF Left
    <2>1. CASE q # t
        <3>1. <<q, d>> \in open' <=> <<q, d>> \in open
            BY <2>1
        <3> QED  BY <2>0, <2>1, <3>1 DEF Others
    <2>2. CASE q = t
        BY <2>0, <2>2, PairIsNotNoEntry
    <2> QED  BY <2>1, <2>2
<1>2. \A q \in Threads \ {t}, n \in Numbers :
          hand'[q] = n /\ Has(q)'.of = NoEntry <=> hand[q] = n /\ Has(q).of = NoEntry
    BY DEF Others, Numbers
<1>3. ASSUME ~failed', NEW n \in Numbers
      PROVE  n \in temps' <=> \E q \in Threads : hand'[q] = n /\ Has(q)'.of = NoEntry
    <2>1. n \in temps <=> \E q \in Threads : hand[q] = n /\ Has(q).of = NoEntry
        BY <1>3 DEF Left
    <2>2. hand'[t] # n /\ \A q \in Threads \ {t} : hand[q] # hand[t]
        BY DEF Handles, Numbers
    <2> QED  BY <1>2, <1>3, <2>1, <2>2
<1> QED  BY <1>1, <1>3 DEF Left

\* Nothing is opened or closed.
LEMMA Keeps ==
    ASSUME Left, Handles, UNCHANGED <<hand, streams, open, temps, failed>>
    PROVE  Left' /\ Handles' /\ \A t \in Threads : Has(t)' = Has(t)
<1>1. \A t \in Threads : Has(t)' = Has(t)
    BY DEF Has
<1> QED  BY <1>1 DEF Left, Handles

\* A lock that was left behind keeps its entry in the cache.
StuckStays == \A l \in stuck : l[1] \in cached

\* The invariants say what NothingLeft says.
LEMMA NothingIsLeft ==
    ASSUME FInv, StuckStays
    PROVE  NothingLeft
<1>1. \A t \in Threads : hand[t] # 0 => Stream(hand[t]) = Has(t) /\ (Cached(t) <=> Has(t).of # NoEntry)
                                        /\ Has(t).of \in Entries \cup {NoEntry} /\ hand[t] \in Numbers
    BY HasOne DEF FInv, Cached
<1> DEFINE used == {t \in Threads : hand[t] # 0}
           locked == {<<t, Stream(hand[t]).of>> : t \in {s \in used : Cached(s)}}
           temporary == {hand[t] : t \in {s \in used : ~Cached(s)}}
<1>2. open = locked
    <2>1. ASSUME NEW o \in open PROVE o \in locked
        <3>1. PICK t \in Threads, e \in Entries : o = <<t, e>>
            BY DEF FInv, Typed
        <3>2. hand[t] # 0 /\ Has(t).of = e
            BY <2>1, <3>1 DEF FInv, Left
        <3> QED  BY <1>1, <3>1, <3>2, PairIsNotNoEntry
    <2>2. ASSUME NEW o \in locked PROVE o \in open
        <3>1. PICK t \in Threads : hand[t] # 0 /\ Cached(t) /\ o = <<t, Stream(hand[t]).of>>
            BY <2>2
        <3>2. o = <<t, Has(t).of>> /\ Has(t).of \in Entries
            BY <1>1, <3>1
        <3> QED  BY <3>1, <3>2 DEF FInv, Left
    <2> QED  BY <2>1, <2>2
<1>3. ~failed => temps = temporary
    <2> SUFFICES ASSUME ~failed PROVE temps = temporary
        OBVIOUS
    <2>1. ASSUME NEW n \in temps PROVE n \in temporary
        <3>1. n \in Numbers
            BY <2>1 DEF FInv, Typed
        <3>2. PICK t \in Threads : hand[t] = n /\ Has(t).of = NoEntry
            BY <2>1, <3>1 DEF FInv, Left
        <3> QED  BY <1>1, <3>1, <3>2 DEF Numbers
    <2>2. ASSUME NEW n \in temporary PROVE n \in temps
        <3>1. PICK t \in Threads : hand[t] # 0 /\ ~Cached(t) /\ n = hand[t]
            BY <2>2
        <3> QED  BY <1>1, <3>1 DEF FInv, Left
    <2> QED  BY <2>1, <2>2
<1> QED  BY <1>2, <1>3 DEF NothingLeft, StuckStays

-----------------------------------------------------------------------------
(* The steps, and what they do to the files.                               *)

\* A thread moves on, and the others have what they had.
LEMMA MovesOn ==
    ASSUME AtHand, NEW t \in Threads, Others(t),
           \A q \in Threads \ {t} : at'[q] = at[q], AtHandOf(t)'
    PROVE  AtHand'
BY DEF AtHand, AtHandOf, Others

Moved(t) == /\ Others(t)
            /\ \A q \in Threads \ {t} : at'[q] = at[q]

\* Where the thread goes, and what a call that ends or throws leaves.
LEMMA GoesTo ==
    ASSUME Typed, NEW t \in Threads
    PROVE  /\ \A p : Goto(t, p) => at'[t] = p /\ \A q \in Threads \ {t} : at'[q] = at[q]
           /\ \A p \in States : Goto(t, p) => at' \in [Threads -> States]
           /\ Throw(t) => /\ at'[t] = "idle" /\ hand'[t] = 0 /\ asked'[t] = 0
                          /\ \A q \in Threads \ {t} :
                                /\ at'[q] = at[q] /\ hand'[q] = hand[q] /\ url'[q] = url[q]
                                /\ reply'[q] = reply[q] /\ etag'[q] = etag[q] /\ asked'[q] = asked[q]
                          /\ at' \in [Threads -> States] /\ url' \in [Threads -> Urls]
                          /\ hand' \in [Threads -> Numbers \cup {0}]
                          /\ reply' \in [Threads -> Nat] /\ etag' \in [Threads -> Nat]
                          /\ asked' \in [Threads -> Nat]
                          /\ hand' = [hand EXCEPT ![t] = 0]
<1>1. AnyUrl \in Urls
    BY LocationAssumption DEF AnyUrl
<1>2. /\ \A p : Goto(t, p) => at'[t] = p /\ \A q \in Threads \ {t} : at'[q] = at[q]
      /\ \A p \in States : Goto(t, p) => at' \in [Threads -> States]
    BY DEF Typed, Goto
<1>3. ASSUME Throw(t)
      PROVE  /\ at'[t] = "idle" /\ hand'[t] = 0 /\ asked'[t] = 0
             /\ \A q \in Threads \ {t} :
                   /\ at'[q] = at[q] /\ hand'[q] = hand[q] /\ url'[q] = url[q]
                   /\ reply'[q] = reply[q] /\ etag'[q] = etag[q] /\ asked'[q] = asked[q]
             /\ at' \in [Threads -> States] /\ url' \in [Threads -> Urls]
             /\ hand' \in [Threads -> Numbers \cup {0}]
             /\ reply' \in [Threads -> Nat] /\ etag' \in [Threads -> Nat]
             /\ asked' \in [Threads -> Nat]
             /\ hand' = [hand EXCEPT ![t] = 0]
    <2>1. at'[t] = "idle" /\ at' \in [Threads -> States] /\ \A q \in Threads \ {t} : at'[q] = at[q]
        BY <1>2, <1>3 DEF Throw, States
    <2>2. url' \in [Threads -> Urls] /\ \A q \in Threads \ {t} : url'[q] = url[q]
        BY <1>1, <1>3 DEF Throw, Typed
    <2>3. /\ hand' = [hand EXCEPT ![t] = 0] /\ hand'[t] = 0
          /\ hand' \in [Threads -> Numbers \cup {0}] /\ \A q \in Threads \ {t} : hand'[q] = hand[q]
        BY <1>3 DEF Throw, Typed
    <2>4. /\ reply' \in [Threads -> Nat] /\ etag' \in [Threads -> Nat] /\ asked' \in [Threads -> Nat]
          /\ asked'[t] = 0
          /\ \A q \in Threads \ {t} : reply'[q] = reply[q] /\ etag'[q] = etag[q] /\ asked'[q] = asked[q]
        BY <1>3 DEF Throw, Typed
    <2> QED  BY <2>1, <2>2, <2>3, <2>4
<1> QED  BY <1>2, <1>3

\* A step that opens and closes nothing.
LEMMA KeepsFiles ==
    ASSUME FInv, NEW t \in Threads, UNCHANGED <<streams, open, temps, failed>>,
           hand' = hand \/ (hand[t] = 0 /\ hand' = [hand EXCEPT ![t] = 0]),
           Typed', \A q \in Threads \ {t} : at'[q] = at[q],
           \/ /\ at'[t] \in {"idle", "lookup", "condition", "update", "reopen"}
              /\ hand[t] = 0
           \/ /\ at[t] \in {"valid", "release", "store", "new", "cached"}
              /\ at'[t] \in {"valid", "release", "cached", "done"}
              /\ at'[t] # "done" => at[t] = "valid"
           \/ /\ at'[t] = "store" \/ at'[t] = "new"
              /\ at[t] \in {"plain", "validate", "store"} /\ hand[t] # 0
           \/ at'[t] \in {"plain", "validate", "cached"} /\ hand[t] = 0
    PROVE  FInv' /\ Moved(t) /\ hand'[t] = hand[t] /\ Has(t)' = Has(t)
<1>1. hand' = hand
    BY DEF FInv, Typed
<1>2. Left' /\ Handles' /\ \A q \in Threads : Has(q)' = Has(q)
    BY <1>1, Keeps DEF FInv
<1>3. AtHandOf(t)'
    BY <1>1, <1>2 DEF FInv, AtHand, AtHandOf
<1>4. Others(t)
    BY <1>1, <1>2 DEF Others
<1> QED  BY <1>1, <1>2, <1>3, <1>4, MovesOn DEF FInv, Moved

LEMMA FoundMoves ==
    ASSUME FInv, NEW t \in Threads, LookupFound(t) \/ Reopen(t)
    PROVE  /\ FInv' /\ Moved(t)
           /\ \E e \in InCache(url[t]) : Has(t)'.of = e /\ <<t, e>> \in open'
<1>1. PICK p \in {"valid", "cached"} : Found(t, p) /\ at[t] \in {"lookup", "reopen"}
    BY DEF LookupFound, Reopen
<1>2. PICK e \in InCache(url[t]), n \in FreeNumbers :
          /\ Get(t, e) /\ UNCHANGED saved
          /\ streams' = streams \cup {Opening(n, e)}
          /\ hand' = [hand EXCEPT ![t] = n]
          /\ Goto(t, p)
          /\ UNCHANGED <<request, answer, temps, content, common>>
    BY <1>1 DEF Found
<1>3. hand[t] = 0
    BY <1>1 DEF FInv, AtHand, AtHandOf
<1>4. e \in Entries
    BY DEF InCache, FInv, Typed
<1>5. /\ Handles' /\ Others(t) /\ hand'[t] = n /\ n \in Numbers /\ n # 0 /\ Has(t)'.of = e
      /\ streams' \subseteq [number : Numbers, of : Entries \cup {NoEntry}]
    BY <1>2, <1>3, <1>4, OpensFile DEF FInv
<1>6. open' = open \cup {<<t, e>>} /\ cached' = cached
    BY <1>2 DEF Get
<1>7. Left'
    BY <1>2, <1>3, <1>4, <1>5, <1>6, GetsBody DEF FInv, common
<1>8. at'[t] = p /\ (\A q \in Threads \ {t} : at'[q] = at[q]) /\ at' \in [Threads -> States]
    <2>1. p \in States
        BY DEF States
    <2> QED  BY <1>2, <2>1, GoesTo DEF FInv
<1>9. Typed'
    <2>1. hand' \in [Threads -> Numbers \cup {0}] /\ open' \subseteq Threads \X Entries
        BY <1>2, <1>4, <1>5, <1>6 DEF FInv, Typed
    <2> QED
        BY <1>2, <1>5, <1>6, <1>8, <2>1 DEF FInv, Typed, request, answer, common
<1>10. AtHandOf(t)'
    BY <1>4, <1>5, <1>8, PairIsNotNoEntry DEF AtHandOf
<1>11. AtHand'
    BY <1>5, <1>8, <1>10, MovesOn DEF FInv
<1> QED  BY <1>5, <1>6, <1>7, <1>8, <1>9, <1>11 DEF FInv, Moved

LEMMA GetTempFileMoves ==
    ASSUME FInv, NEW t \in Threads, GetTempFile(t), hand'[t] # 0
    PROVE  FInv' /\ Moved(t) /\ Has(t)'.of = NoEntry
<1>1. ~Throw(t)
    BY GoesTo DEF FInv
<1>2. PICK n \in FreeNumbers :
          /\ hand' = [hand EXCEPT ![t] = n]
          /\ streams' = streams \cup {Opening(n, NoEntry)}
          /\ temps' = temps \cup {n}
          /\ asked' = [asked EXCEPT ![t] = version[url[t]]]
          /\ UNCHANGED <<at, request, reply, etag>>
    BY <1>1 DEF GetTempFile
<1>3. hand[t] = 0 /\ at[t] \in {"plain", "validate"} /\ UNCHANGED <<cacheVars, content, common>>
    BY DEF GetTempFile
<1>4. /\ Handles' /\ Others(t) /\ hand'[t] = n /\ n \in Numbers /\ n # 0 /\ Has(t)'.of = NoEntry
      /\ \A q \in Threads : hand[q] # n
      /\ streams' \subseteq [number : Numbers, of : Entries \cup {NoEntry}]
    BY <1>2, <1>3, OpensFile DEF FInv
<1>5. Left'
    BY <1>2, <1>3, <1>4, GetsTemp DEF FInv, common, cacheVars
<1>6. Typed'
    BY <1>2, <1>3, <1>4 DEF FInv, Typed, request, common, cacheVars
<1>7. AtHandOf(t)'
    BY <1>2, <1>3, <1>4 DEF AtHandOf
<1>8. AtHand'
    BY <1>2, <1>4, <1>7, MovesOn DEF FInv
<1> QED  BY <1>2, <1>4, <1>5, <1>6, <1>8 DEF FInv, Moved

\* A step that puts away what the thread has at hand.
LEMMA PutsAway ==
    ASSUME FInv, NEW t \in Threads, hand[t] # 0, hand' = [hand EXCEPT ![t] = 0],
           streams' \subseteq streams, \A s \in streams : s.number # hand[t] => s \in streams',
           \/ /\ Has(t).of # NoEntry /\ open' = open \ {<<t, Has(t).of>>}
              /\ UNCHANGED <<temps, failed>>
           \/ /\ Has(t).of = NoEntry /\ open' = open
              /\ failed' = TRUE \/ (failed' = failed /\ temps' = temps \ {hand[t]}),
           Typed', \A q \in Threads \ {t} : at'[q] = at[q],
           at'[t] \in {"idle", "lookup", "condition", "update", "plain"}
    PROVE  FInv' /\ Moved(t) /\ hand'[t] = 0
<1>1. Handles' /\ Others(t) /\ hand'[t] = 0
    BY LetsGo DEF FInv
<1>2. Left'
    <2>1. CASE Has(t).of # NoEntry
        BY <1>1, <2>1, PutsBody DEF FInv
    <2>2. CASE Has(t).of = NoEntry
        BY <1>1, <2>2, PutsTemp DEF FInv
    <2> QED  BY <2>1, <2>2
<1>3. AtHand'
    BY <1>1, MovesOn DEF FInv, AtHandOf
<1> QED  BY <1>1, <1>2, <1>3 DEF FInv, Moved

\* What the destructor of a response, and close_temp() before it, do.
LEMMA DestroyDoes ==
    ASSUME FInv, NEW t \in Threads, hand[t] # 0
    PROVE  /\ Destroy(t) =>
                 /\ streams' \subseteq streams
                 /\ \A s \in streams : s.number # hand[t] => s \in streams'
                 /\ temps' \subseteq temps /\ UNCHANGED <<cached, saved>> /\ open' \subseteq open
                 /\ \/ Has(t).of # NoEntry /\ open' = open \ {<<t, Has(t).of>>} /\ temps' = temps
                    \/ Has(t).of = NoEntry /\ open' = open /\ temps' = temps \ {hand[t]}
           /\ CloseTemp(t) =>
                 /\ streams' \subseteq streams
                 /\ \A s \in streams : s.number # hand[t] => s \in streams'
                 /\ temps' = temps \ {hand[t]}
<1>1. Stream(hand[t]) = Has(t) /\ Has(t).number = hand[t]
    BY HasOne DEF FInv
<1>2. CloseTemp(t) => /\ streams' \subseteq streams
                      /\ \A s \in streams : s.number # hand[t] => s \in streams'
                      /\ temps' = temps \ {hand[t]}
    BY DEF CloseTemp
<1> QED  BY <1>1, <1>2 DEF Destroy, Cached, Release, cacheVars

\* An entry that is forgotten is blank.
LEMMA ForgetDoes ==
    ASSUME FInv, NEW u, Forget(u)
    PROVE  /\ content' \in [Ids -> [body : Nat, etag : Nat]] /\ cached' \subseteq Entries
           /\ open' = open /\ cached' = cached \ InCache(u) /\ Opened(InCache(u)) = {}
           /\ \A i \in Ids : <<u, i>> \notin cached => content'[i] = content[i]
<1>1. Blank \in [body : Nat, etag : Nat]
    BY DEF Blank
<1> QED  BY <1>1 DEF Forget, Drop, FInv, Typed

\* Every step of a fetch keeps it: what the thread has at hand is what it should
\* have, and the others have what they had.
LEMMA FetchKeeps ==
    ASSUME FInv, NEW t \in Threads, Fetch(t)
    PROVE  FInv' /\ Moved(t)
<1>0. Typed /\ AtHandOf(t)
    BY DEF FInv, AtHand
<1>1. ASSUME NEW u \in Urls, NEW c \in BOOLEAN, FetchUrl(t, u, c) PROVE FInv' /\ Moved(t)
    <2>1. /\ at[t] = "idle" /\ hand[t] = 0 /\ at'[t] \in {"lookup", "plain"}
          /\ at' \in [Threads -> States] /\ \A q \in Threads \ {t} : at'[q] = at[q]
        BY <1>0, <1>1, GoesTo DEF FetchUrl, AtHandOf, States
    <2>2. Typed'
        BY <1>0, <1>1, <2>1 DEF FetchUrl, Typed, cacheVars, answer, files, common
    <2> QED  BY <1>1, <2>1, <2>2, KeepsFiles DEF FetchUrl, cacheVars, files, common
<1>2. CASE LookupFails(t)
    <2>1. /\ Throw(t) /\ hand[t] = 0
          /\ UNCHANGED <<cacheVars, files, content, version, newest, late, failed>>
        BY <1>0, <1>2 DEF LookupFails, AtHandOf
    <2>2. Typed'
        BY <1>0, <2>1, GoesTo DEF Typed, cacheVars, files
    <2> QED  BY <1>0, <2>1, <2>2, GoesTo, KeepsFiles DEF cacheVars, files
<1>3. CASE LookupNotFound(t) \/ IsUrlValid(t) \/ ReopenNothing(t) \/ Deliver(t)
    <2>1. /\ \/ at[t] \in {"lookup", "reopen"} /\ hand[t] = 0 /\ at'[t] \in {"plain", "cached"}
             \/ at[t] = "valid" /\ at'[t] \in {"cached", "release"}
             \/ at[t] \in {"cached", "new"} /\ at'[t] = "done"
          /\ at' \in [Threads -> States] /\ \A q \in Threads \ {t} : at'[q] = at[q]
          /\ UNCHANGED <<cacheVars, hand, request, answer, files, content, common>>
        BY <1>0, <1>3, GoesTo
           DEF LookupNotFound, IsUrlValid, ReopenNothing, Deliver, AtHandOf, States
    <2>2. Typed'
        BY <1>0, <2>1 DEF Typed, cacheVars, request, answer, files, common
    <2> QED  BY <2>1, <2>2, KeepsFiles DEF cacheVars, files, common
<1>4. CASE ReleaseForValidation(t)
    <2>1. /\ at[t] = "release" /\ hand[t] # 0 /\ Has(t).of # NoEntry /\ Stream(hand[t]) = Has(t)
        BY <1>0, <1>4, HasOne DEF ReleaseForValidation, AtHandOf, FInv
    <2>2. /\ open' = open \ {<<t, Has(t).of>>} /\ hand' = [hand EXCEPT ![t] = 0]
          /\ at'[t] = "condition" /\ at' \in [Threads -> States]
          /\ \A q \in Threads \ {t} : at'[q] = at[q]
          /\ UNCHANGED <<cached, request, answer, files, content, common>>
        BY <1>0, <1>4, <2>1, GoesTo DEF ReleaseForValidation, Release, States
    <2>3. Typed'
        BY <1>0, <2>2 DEF Typed, request, answer, files, common
    <2> QED  BY <2>1, <2>2, <2>3, PutsAway DEF files, common
<1>5. CASE Condition(t)
    <2>1. /\ at[t] = "condition" /\ hand[t] = 0 /\ UNCHANGED <<cacheVars, files, content, common>>
        BY <1>0, <1>5 DEF Condition, AtHandOf
    <2>2. CASE Throw(t)
        <3>1. Typed'
            BY <1>0, <2>1, <2>2, GoesTo DEF Typed, cacheVars, files, common
        <3> QED  BY <1>0, <2>1, <2>2, <3>1, GoesTo, KeepsFiles DEF cacheVars, files, common
    <2>3. CASE ~Throw(t)
        <3>1. PICK e \in InCache(url[t]) : etag' = [etag EXCEPT ![t] = content[e[2]].etag]
            BY <1>5, <2>3 DEF Condition
        <3>2. /\ at'[t] = "validate" /\ at' \in [Threads -> States]
              /\ \A q \in Threads \ {t} : at'[q] = at[q]
              /\ UNCHANGED <<hand, request, reply, asked>>
            BY <1>0, <1>5, <2>3, GoesTo DEF Condition, States
        <3>3. content[e[2]].etag \in Nat
            BY <1>0 DEF InCache, Typed, Entries
        <3>4. Typed'
            BY <1>0, <2>1, <3>1, <3>2, <3>3 DEF Typed, cacheVars, request, files, common
        <3> QED  BY <2>1, <3>2, <3>4, KeepsFiles DEF cacheVars, files, common
    <2> QED  BY <2>2, <2>3
<1>6. CASE GetTempFile(t)
    <2>1. CASE hand'[t] # 0
        BY <1>6, <2>1, GetTempFileMoves
    <2>2. CASE hand'[t] = 0
        <3>1. /\ hand[t] = 0 /\ UNCHANGED <<cacheVars, content, common>>
              /\ Throw(t) /\ UNCHANGED files
            BY <1>0, <1>6, <2>2 DEF GetTempFile, FreeNumbers, Free, Numbers, Typed
        <3>2. Typed'
            BY <1>0, <3>1, GoesTo DEF Typed, cacheVars, files, common
        <3> QED  BY <1>0, <3>1, <3>2, GoesTo, KeepsFiles DEF cacheVars, files, common
    <2> QED  BY <2>1, <2>2
<1>7. CASE ReadFails(t)
    <2>1. /\ hand[t] # 0 /\ Has(t).of = NoEntry /\ Throw(t) /\ CloseTemp(t)
          /\ UNCHANGED <<cacheVars, content, common>>
        BY <1>0, <1>7 DEF ReadFails, AtHandOf
    <2>2. Typed'
        BY <1>0, <2>1, GoesTo, DestroyDoes DEF Typed, cacheVars, common
    <2> QED  BY <1>0, <2>1, <2>2, GoesTo, DestroyDoes, PutsAway DEF cacheVars, common
<1>8. CASE ReadNew(t)
    <2>1. /\ at[t] \in {"plain", "validate"} /\ hand[t] # 0 /\ at'[t] \in {"store", "new"}
          /\ at' \in [Threads -> States] /\ \A q \in Threads \ {t} : at'[q] = at[q]
        BY <1>0, <1>8, GoesTo DEF ReadNew, States
    <2>2. Typed'
        BY <1>0, <1>8, <2>1 DEF ReadNew, Typed, cacheVars, request, files, common
    <2> QED  BY <1>8, <2>1, <2>2, KeepsFiles DEF ReadNew, cacheVars, files, common
<1>9. CASE ReadNotModified(t)
    <2>1. /\ hand[t] # 0 /\ Has(t).of = NoEntry /\ CloseTemp(t) /\ at'[t] = "update"
          /\ at' \in [Threads -> States] /\ \A q \in Threads \ {t} : at'[q] = at[q]
          /\ hand' = [hand EXCEPT ![t] = 0] /\ UNCHANGED <<cacheVars, request, asked, content, common>>
        BY <1>0, <1>9, GoesTo DEF ReadNotModified, AtHandOf, States
    <2>2. Typed'
        BY <1>0, <1>9, <2>1, DestroyDoes DEF ReadNotModified, Typed, cacheVars, request, common
    <2> QED  BY <1>0, <2>1, <2>2, DestroyDoes, PutsAway DEF cacheVars, common
<1>10. CASE UpdateResponse(t)
    <2>1. /\ at[t] = "update" /\ hand[t] = 0
          /\ UNCHANGED <<cacheVars, files, version, newest, late, failed>>
        BY <1>0, <1>10 DEF UpdateResponse, AtHandOf
    <2>2. content' \in [Ids -> [body : Nat, etag : Nat]]
        <3>1. \/ content' = content
              \/ \E e \in InCache(url[t]) : content' = [content EXCEPT ![e[2]].etag = reply[t]]
            BY <1>10 DEF UpdateResponse
        <3>2. reply[t] \in Nat /\ \A e \in InCache(url[t]) : e[2] \in Ids
            BY <1>0 DEF Typed, InCache, Entries
        <3> QED  BY <1>0, <3>1, <3>2 DEF Typed
    <2>3. CASE Throw(t)
        <3>1. Typed'
            BY <1>0, <2>1, <2>2, <2>3, GoesTo DEF Typed, cacheVars, files
        <3> QED  BY <1>0, <2>1, <2>3, <3>1, GoesTo, KeepsFiles DEF cacheVars, files
    <2>4. CASE Goto(t, "reopen") /\ UNCHANGED <<hand, request, answer>>
        <3>1. /\ at'[t] = "reopen" /\ at' \in [Threads -> States]
              /\ \A q \in Threads \ {t} : at'[q] = at[q]
            BY <1>0, <2>4, GoesTo DEF States
        <3>2. Typed'
            BY <1>0, <2>1, <2>2, <2>4, <3>1 DEF Typed, cacheVars, request, answer, files
        <3> QED  BY <2>1, <2>4, <3>1, <3>2, KeepsFiles DEF cacheVars, files
    <2> QED  BY <1>10, <2>3, <2>4 DEF UpdateResponse
<1>11. ASSUME NEW i \in Ids, Stored(t, i) PROVE FInv' /\ Moved(t)
    <2>1. /\ at[t] = "store" /\ hand[t] # 0 /\ at'[t] = "new"
          /\ at' \in [Threads -> States] /\ \A q \in Threads \ {t} : at'[q] = at[q]
          /\ UNCHANGED <<open, hand, request, answer, files, version, failed>>
        BY <1>0, <1>11, GoesTo DEF Stored, Replace, AtHandOf, States
    <2>2. url[t] \in Urls /\ reply[t] \in Nat
        BY <1>0 DEF Typed
    <2>3. content' \in [Ids -> [body : Nat, etag : Nat]]
        BY <1>0, <1>11, <2>2 DEF Stored, Typed, Blank
    <2>4. newest' \in [Urls -> Nat] /\ late' \subseteq Urls /\ cached' \subseteq Entries
        BY <1>0, <1>11, <2>2 DEF Stored, Replace, Typed, Entries
    <2>5. Typed'
        BY <1>0, <2>1, <2>3, <2>4 DEF Typed, request, answer, files
    <2> QED  BY <2>1, <2>5, KeepsFiles DEF files
<1>12. CASE NotStored(t)
    <2>1. /\ at[t] = "store" /\ hand[t] # 0 /\ at'[t] = "new" /\ Forget(url[t])
          /\ at' \in [Threads -> States] /\ \A q \in Threads \ {t} : at'[q] = at[q]
          /\ UNCHANGED <<hand, request, answer, files, common>>
        BY <1>0, <1>12, GoesTo DEF NotStored, AtHandOf, States
    <2>2. Typed'
        BY <1>0, <2>1, ForgetDoes DEF Typed, request, answer, files, common
    <2> QED  BY <2>1, <2>2, ForgetDoes, KeepsFiles DEF files, common
<1>13. CASE StoreFails(t)
    <2>1. /\ hand[t] # 0 /\ Has(t).of = NoEntry /\ Forget(url[t]) /\ failed' = TRUE /\ Throw(t)
          /\ UNCHANGED <<files, version, newest, late>>
        BY <1>0, <1>13 DEF StoreFails, AtHandOf
    <2>2. Typed'
        BY <1>0, <2>1, GoesTo, ForgetDoes DEF Typed, files
    <2> QED  BY <1>0, <2>1, <2>2, GoesTo, ForgetDoes, PutsAway DEF files
<1>14. CASE Redirect(t)
    <2>1. /\ hand[t] # 0 /\ Destroy(t) /\ hand' = [hand EXCEPT ![t] = 0]
          /\ at'[t] \in {"lookup", "plain"}
          /\ at' \in [Threads -> States] /\ \A q \in Threads \ {t} : at'[q] = at[q]
          /\ UNCHANGED <<caching, reply, etag, content, common>>
        BY <1>0, <1>14, GoesTo DEF Redirect, States
    <2>2. url' \in [Threads -> Urls] /\ asked' \in [Threads -> Nat]
        BY <1>0, <1>14, LocationAssumption DEF Redirect, Typed
    <2>3. Typed'
        BY <1>0, <2>1, <2>2, DestroyDoes DEF Typed, common
    <2> QED  BY <2>1, <2>3, DestroyDoes, PutsAway DEF common
<1>15. CASE Delete(t)
    <2>1. hand[t] # 0 /\ Destroy(t) /\ Throw(t) /\ UNCHANGED <<content, common>>
        BY <1>15 DEF Delete
    <2>2. Typed'
        BY <1>0, <2>1, GoesTo, DestroyDoes DEF Typed, common
    <2> QED  BY <1>0, <2>1, <2>2, GoesTo, DestroyDoes, PutsAway DEF common
<1> QED
    BY <1>1, <1>2, <1>3, <1>4, <1>5, <1>6, <1>7, <1>8, <1>9, <1>10, <1>11, <1>12, <1>13,
       <1>14, <1>15, FoundMoves DEF Fetch

LEMMA InitFInv == ClientInit => FInv
<1> SUFFICES ASSUME ClientInit PROVE FInv
    OBVIOUS
<1>1. AnyUrl \in Urls
    BY LocationAssumption DEF AnyUrl
<1>2. Typed
    BY <1>1 DEF ClientInit, CacheInit, Typed, States, Blank
<1>3. Handles /\ Left /\ AtHand
    BY DEF ClientInit, CacheInit, Handles, Left, AtHand, AtHandOf, Numbers
<1> QED  BY <1>2, <1>3 DEF FInv

LEMMA FInvKeeps == FInv /\ [ClientNext]_clientVars => FInv'
<1> SUFFICES ASSUME FInv, [ClientNext]_clientVars PROVE FInv'
    OBVIOUS
<1>1. ASSUME NEW t \in Threads, Fetch(t) PROVE FInv'
    BY <1>1, FetchKeeps
<1>2. ASSUME UNCHANGED <<at, hand, streams, temps, open, failed>>, Typed' PROVE FInv'
    <2>1. Left' /\ Handles' /\ \A t \in Threads : Has(t)' = Has(t)
        BY <1>2, Keeps DEF FInv
    <2>2. AtHand'
        BY <1>2, <2>1 DEF FInv, AtHand, AtHandOf
    <2> QED  BY <1>2, <2>1, <2>2 DEF FInv
<1>3. ASSUME NEW u \in Urls, Collect(u) PROVE FInv'
    <2>1. Typed'
        BY <1>3, ForgetDoes DEF Collect, FInv, Typed, request, answer, files, common
    <2> QED  BY <1>2, <1>3, <2>1, ForgetDoes DEF Collect, files, common
<1>4. ASSUME NEW u \in Urls, Change(u) PROVE FInv'
    <2>1. Typed'
        BY <1>4 DEF Change, FInv, Typed, request, answer, files, cacheVars
    <2> QED  BY <1>2, <1>4, <2>1 DEF Change, files, cacheVars
<1>5. CASE UNCHANGED clientVars
    <2>1. Typed'
        BY <1>5 DEF clientVars, FInv, Typed, cacheVars
    <2> QED  BY <1>2, <1>5, <2>1 DEF clientVars, cacheVars
<1> QED  BY <1>1, <1>3, <1>4, <1>5 DEF ClientNext

\* What a thread has at hand is what it has locked, and what is on disk.
THEOREM FilesInvariance == ClientSpec => []FInv
<1> QED  BY InitFInv, FInvKeeps, PTL DEF ClientSpec

\* A lock that a throwing call left is on an entry of the cache, and no call removes
\* an entry under one.
LEMMA StuckKeeps == StuckStays /\ [ClientNext]_clientVars => StuckStays'
<1> SUFFICES ASSUME StuckStays, [ClientNext]_clientVars PROVE StuckStays'
    OBVIOUS
<1>1. CASE UNCHANGED <<cached, stuck>>
    BY <1>1 DEF StuckStays
<1>2. ASSUME NEW u, Forget(u), stuck' = stuck PROVE StuckStays'
    BY <1>2 DEF Forget, Drop, CanWrite, LeftOn, StuckStays
<1>3. ASSUME NEW t \in Threads, Fetch(t) PROVE StuckStays'
    <2>1. CASE LookupFails(t) \/ UpdateResponse(t)
        <3>1. cached' = cached /\ (\/ stuck' = stuck
                                  \/ \E e \in InCache(url[t]), lock \in {"read", "write"} :
                                        stuck' = stuck \cup {<<e, lock>>})
            BY <2>1 DEF LookupFails, UpdateResponse, LeaveLocked, cacheVars
        <3> QED  BY <3>1 DEF StuckStays, InCache
    <2>2. CASE \E i \in Ids : Stored(t, i)
        BY <2>2 DEF Stored, Replace, CanWrite, LeftOn, StuckStays
    <2>3. CASE NotStored(t) \/ StoreFails(t)
        BY <1>2, <2>3 DEF NotStored, StoreFails, common
    <2>4. CASE LookupFound(t) \/ Reopen(t) \/ ReleaseForValidation(t)
        BY <1>1, <2>4 DEF LookupFound, Reopen, Found, Get, ReleaseForValidation, Release, common
    <2>5. CASE Redirect(t) \/ Delete(t)
        BY <1>1, <2>5 DEF Redirect, Delete, Destroy, Release, cacheVars, common
    <2>6. CASE \/ \E u \in Urls, c \in BOOLEAN : FetchUrl(t, u, c)
               \/ LookupNotFound(t) \/ IsUrlValid(t) \/ Condition(t) \/ GetTempFile(t)
               \/ ReadFails(t) \/ ReadNew(t) \/ ReadNotModified(t) \/ ReopenNothing(t) \/ Deliver(t)
        BY <1>1, <2>6 DEF FetchUrl, LookupNotFound, IsUrlValid, Condition, GetTempFile, ReadFails,
           ReadNew, ReadNotModified, ReopenNothing, Deliver, cacheVars, common
    <2> QED  BY <1>3, <2>1, <2>2, <2>3, <2>4, <2>5, <2>6 DEF Fetch
<1>4. ASSUME NEW u \in Urls, Collect(u) PROVE StuckStays'
    BY <1>2, <1>4 DEF Collect, common
<1>5. ASSUME NEW u \in Urls, Change(u) PROVE StuckStays'
    BY <1>1, <1>5 DEF Change, cacheVars
<1>6. CASE UNCHANGED clientVars
    BY <1>1, <1>6 DEF clientVars, cacheVars
<1> QED  BY <1>3, <1>4, <1>5, <1>6 DEF ClientNext

\* Whatever way a fetch takes, and wherever it throws, the responses that are open are
\* those that a thread has at hand; no temporary file stays but for those that
\* cache_response() makes it forget (HTTPConnect.cc:856-919); and an entry that a
\* throwing call of the cache left locked is never removed under its lock.
THEOREM NothingLeftBehind == ClientSpec => []NothingLeft
<1>1. ClientInit => StuckStays
    BY DEF ClientInit, StuckStays
<1>2. FInv /\ StuckStays => NothingLeft
    BY NothingIsLeft
<1> QED  BY <1>1, <1>2, FilesInvariance, StuckKeeps, PTL DEF ClientSpec

-----------------------------------------------------------------------------
(* Bodies and ETags.                                                       *)

\* An entry has the newest body that was stored, and an ETag that is no newer.
Newest ==
    /\ \A e, d \in cached : e[2] = d[2] => e = d
    /\ \A o \in open : o[2] \in cached
    /\ \A e \in cached : e[1] \notin late =>
          /\ content[e[2]].body = newest[e[1]]
          /\ content[e[2]].etag <= content[e[2]].body

\* What each thread knows of what it asked for, of the server's answer, and of the
\* body it has at hand.
KnowsOf(t) ==
    /\ asked[t] <= version[url[t]]
    /\ at[t] \in {"idle", "lookup", "valid", "release", "condition"} => asked[t] = 0
    /\ at[t] \in {"store", "new", "update", "reopen"} => asked[t] <= reply[t]
    /\ at[t] = "done" /\ hand[t] # 0 /\ Has(t).of = NoEntry => asked[t] <= reply[t]
    /\ at[t] = "validate" /\ url[t] \notin late => etag[t] <= newest[url[t]]
    /\ at[t] \in {"update", "reopen"} /\ url[t] \notin late => reply[t] <= newest[url[t]]
    /\ hand[t] # 0 /\ Has(t).of # NoEntry =>
          /\ Has(t).of[1] = url[t]
          /\ url[t] \notin late => content[Has(t).of[2]].body >= asked[t]
Knows == \A t \in Threads : KnowsOf(t)

CInv == FInv /\ Newest /\ Knows

\* The body that a thread has open is in the cache.
LEMMA OpenIsCached ==
    ASSUME CInv, NEW t \in Threads, hand[t] # 0, Has(t).of # NoEntry
    PROVE  /\ Has(t).of \in Entries /\ Has(t).of \in cached
           /\ <<t, Has(t).of>> \in open /\ Has(t).of = <<url[t], Has(t).of[2]>>
<1>1. Has(t).of \in Entries
    BY HasOne DEF CInv, FInv
<1>2. <<t, Has(t).of>> \in open
    BY <1>1 DEF CInv, FInv, Left
<1> QED  BY <1>1, <1>2 DEF CInv, Newest, Knows, KnowsOf, Entries

\* A thread that does nothing knows what it knew, while versions grow and the
\* entries that are open keep their bodies.
LEMMA StillKnows ==
    ASSUME CInv, NEW t \in Threads,
           UNCHANGED <<at[t], hand[t], url[t], reply[t], etag[t], asked[t]>>,
           hand[t] # 0 => Has(t)' = Has(t),
           \A u \in Urls : version'[u] >= version[u] /\ newest'[u] >= newest[u],
           Typed', late \subseteq late',
           \A o \in open : content'[o[2][2]].body = content[o[2][2]].body
    PROVE  KnowsOf(t)'
<1>1. KnowsOf(t) /\ url[t] \in Urls
    BY DEF CInv, Knows, FInv, Typed
<1>2. /\ version[url[t]] \in Nat /\ version'[url[t]] \in Nat /\ newest[url[t]] \in Nat
      /\ newest'[url[t]] \in Nat /\ asked[t] \in Nat /\ etag[t] \in Nat /\ reply[t] \in Nat
    BY <1>1 DEF CInv, FInv, Typed
<1>3. hand[t] # 0 /\ Has(t).of # NoEntry =>
          content'[Has(t).of[2]].body = content[Has(t).of[2]].body
    BY OpenIsCached
<1>4. version'[url[t]] >= version[url[t]] /\ newest'[url[t]] >= newest[url[t]]
    BY <1>1
<1> QED  BY <1>1, <1>2, <1>3, <1>4 DEF KnowsOf

\* What is not about the bodies: others open and release entries.
LEMMA SameBodies ==
    ASSUME CInv, UNCHANGED <<cached, content, newest, late>>, \A o \in open' : o[2] \in cached
    PROVE  Newest' /\ \A o \in open : content'[o[2][2]].body = content[o[2][2]].body
BY DEF CInv, Newest

\* The response for a URL is forgotten when nobody has it open; the others stay.
LEMMA ForgetsBody ==
    ASSUME CInv, NEW u, Forget(u), UNCHANGED <<newest, late>>
    PROVE  Newest' /\ \A o \in open : content'[o[2][2]].body = content[o[2][2]].body
<1>1. /\ cached' = cached \ InCache(u) /\ Opened(InCache(u)) = {} /\ open' = open
      /\ \A i \in Ids : <<u, i>> \notin cached => content'[i] = content[i]
    BY ForgetDoes DEF CInv
<1>2. \A e \in cached : e = <<e[1], e[2]>> /\ e[2] \in Ids
    BY DEF CInv, FInv, Typed, Entries
<1>3. ASSUME NEW e \in cached, e[1] # u PROVE content'[e[2]] = content[e[2]]
    <2>1. <<u, e[2]>> \notin cached
        BY <1>3 DEF CInv, Newest
    <2> QED  BY <1>1, <1>2, <2>1
<1>4. \A o \in open : o[2] \in cached /\ o[2][1] # u
    BY <1>1 DEF CInv, Newest, Opened, InCache
<1>5. \A e \in cached' : e \in cached /\ e[1] # u
    BY <1>1 DEF InCache
<1>6. \A o \in open : content'[o[2][2]].body = content[o[2][2]].body
    BY <1>3, <1>4
<1>7. \A e \in cached' : content'[e[2]] = content[e[2]]
    BY <1>3, <1>5
<1>8. \A o \in open' : o[2] \in cached'
    BY <1>1, <1>4 DEF InCache
<1>9. Newest'
    BY <1>5, <1>7, <1>8 DEF CInv, Newest
<1> QED  BY <1>6, <1>9

\* A response that is stored is the newest, unless it is older than one before it.
LEMMA StoresBody ==
    ASSUME CInv, NEW t \in Threads, NEW i \in Ids, Stored(t, i)
    PROVE  /\ Newest' /\ late \subseteq late'
           /\ \A o \in open : content'[o[2][2]].body = content[o[2][2]].body
           /\ \A u \in Urls : newest'[u] >= newest[u]
<1> DEFINE u == url[t]
           r == reply[t]
           new == <<u, i>>
<1>1. u \in Urls /\ r \in Nat /\ newest[u] \in Nat
    BY DEF CInv, FInv, Typed
<1>2. /\ i \notin {d[2] : d \in cached \cup saved} /\ Opened(InCache(u)) = {}
      /\ cached' = (cached \ InCache(u)) \cup {new} /\ open' = open
    BY DEF Stored, Replace
<1>3. \A e \in cached : e = <<e[1], e[2]>> /\ e[1] \in Urls /\ e[2] \in Ids /\ e[2] # i
    BY <1>2 DEF CInv, FInv, Typed, Entries
<1>4. \A e \in cached : e[1] # u => <<u, e[2]>> \notin cached
    BY DEF CInv, Newest
<1>5. \A e \in cached : e[1] # u => content'[e[2]] = content[e[2]]
    BY <1>3, <1>4 DEF Stored
<1>6. content'[i].body = r /\ content'[i].etag = r
    BY DEF Stored
<1>7. /\ r < newest[u] => u \in late'
      /\ newest'[u] = IF r > newest[u] THEN r ELSE newest[u]
      /\ \A v \in Urls \ {u} : newest'[v] = newest[v] /\ (v \in late' <=> v \in late)
      /\ late \subseteq late'
    BY <1>1 DEF Stored, CInv, FInv, Typed
<1>8. \A o \in open : o[2] \in cached /\ o[2][1] # u
    BY <1>2 DEF CInv, Newest, Opened, InCache
<1>9. \A e \in cached' : e = new \/ (e \in cached /\ e[1] # u)
    BY <1>2 DEF InCache
<1> HIDE DEF u, r
<1>10. new[1] = u /\ new[2] = i
    OBVIOUS
<1> HIDE DEF new
<1>11. \A e, d \in cached' : e[2] = d[2] => e = d
    BY <1>3, <1>9, <1>10 DEF CInv, Newest
<1>12. \A o \in open' : o[2] \in cached'
    BY <1>2, <1>8 DEF InCache
<1>13. ASSUME NEW e \in cached', e[1] \notin late'
       PROVE  content'[e[2]].body = newest'[e[1]] /\ content'[e[2]].etag <= content'[e[2]].body
    <2>1. CASE e = new
        BY <1>1, <1>6, <1>7, <1>10, <1>13, <2>1
    <2>2. CASE e # new
        BY <1>3, <1>5, <1>7, <1>9, <1>13, <2>2 DEF CInv, Newest
    <2> QED  BY <2>1, <2>2
<1>14. \A v \in Urls : newest'[v] >= newest[v]
    <2> TAKE v \in Urls
    <2>1. newest[v] \in Nat
        BY DEF CInv, FInv, Typed
    <2> QED  BY <1>1, <1>7, <2>1
<1> QED  BY <1>5, <1>7, <1>8, <1>11, <1>12, <1>13, <1>14 DEF Newest

\* The ETag that the server confirmed is no newer than what is stored since.
LEMMA UpdatesETag ==
    ASSUME CInv, NEW t \in Threads, at[t] = "update", NEW e \in InCache(url[t]),
           content' = [content EXCEPT ![e[2]].etag = reply[t]],
           UNCHANGED <<cached, open, newest, late>>
    PROVE  Newest' /\ \A o \in open : content'[o[2][2]].body = content[o[2][2]].body
<1>1. e \in cached /\ e[1] = url[t]
    BY DEF InCache
<1>2. \A d \in cached : d[2] \in Ids
    BY DEF CInv, FInv, Typed, Entries
<1>3. \A j \in Ids : /\ content'[j].body = content[j].body
                     /\ content'[j].etag = IF j = e[2] THEN reply[t] ELSE content[j].etag
    BY <1>1, <1>2 DEF CInv, FInv, Typed
<1>4. url[t] \notin late => reply[t] <= newest[url[t]]
    BY DEF CInv, Knows, KnowsOf
<1>5. \A d \in cached : d[1] \notin late => content'[d[2]].body = newest[d[1]]
                                            /\ content'[d[2]].etag <= content'[d[2]].body
    BY <1>1, <1>2, <1>3, <1>4 DEF CInv, Newest
<1> QED  BY <1>2, <1>3, <1>5 DEF CInv, Newest

\* What a fetch does to the bodies in the cache.
LEMMA FetchBodies ==
    ASSUME CInv, NEW t \in Threads, Fetch(t)
    PROVE  /\ Newest' /\ late \subseteq late' /\ version' = version
           /\ \A o \in open : content'[o[2][2]].body = content[o[2][2]].body
           /\ \A u \in Urls : newest'[u] >= newest[u]
<1>0. /\ \A u \in Urls : newest[u] \in Nat
      /\ \A o \in open : o[2] \in cached
    BY DEF CInv, FInv, Typed, Newest
<1>1. CASE UNCHANGED <<cacheVars, content, version, newest, late>>
    BY <1>0, <1>1, SameBodies DEF cacheVars
<1>2. CASE LookupFound(t) \/ Reopen(t)
    <2>1. PICK e \in InCache(url[t]) : Get(t, e) /\ UNCHANGED <<content, common>>
        BY <1>2 DEF LookupFound, Reopen, Found
    <2>2. cached' = cached /\ \A o \in open' : o[2] \in cached
        BY <1>0, <2>1 DEF Get, InCache
    <2> QED  BY <1>0, <2>1, <2>2, SameBodies DEF common
<1>3. CASE ReleaseForValidation(t)
    <2>1. cached' = cached /\ open' \subseteq open /\ UNCHANGED <<content, common>>
        BY <1>3 DEF ReleaseForValidation, Release
    <2> QED  BY <1>0, <2>1, SameBodies DEF common
<1>4. CASE Redirect(t) \/ Delete(t)
    <2>1. hand[t] # 0 /\ Destroy(t) /\ UNCHANGED <<content, common>>
        BY <1>4 DEF Redirect, Delete
    <2>2. cached' = cached /\ open' \subseteq open
        BY <2>1, DestroyDoes DEF CInv
    <2> QED  BY <1>0, <2>1, <2>2, SameBodies DEF common
<1>5. CASE UpdateResponse(t)
    <2>1. CASE UNCHANGED content
        BY <1>1, <1>5, <2>1 DEF UpdateResponse
    <2>2. CASE content' # content
        <3>1. PICK e \in InCache(url[t]) : content' = [content EXCEPT ![e[2]].etag = reply[t]]
            BY <1>5, <2>2 DEF UpdateResponse
        <3>2. at[t] = "update" /\ UNCHANGED <<cached, open, newest, late, version>>
            BY <1>5 DEF UpdateResponse, cacheVars, common
        <3>3. Newest' /\ \A o \in open : content'[o[2][2]].body = content[o[2][2]].body
            BY <3>1, <3>2, UpdatesETag
        <3> QED  BY <1>0, <3>2, <3>3
    <2> QED  BY <2>1, <2>2
<1>6. CASE \E i \in Ids : Stored(t, i)
    BY <1>6, StoresBody DEF Stored
<1>7. CASE NotStored(t) \/ StoreFails(t)
    BY <1>0, <1>7, ForgetsBody DEF NotStored, StoreFails, common
<1>8. CASE \/ \E u \in Urls, c \in BOOLEAN : FetchUrl(t, u, c)
           \/ LookupFails(t) \/ LookupNotFound(t) \/ IsUrlValid(t) \/ Condition(t) \/ GetTempFile(t)
           \/ ReadFails(t) \/ ReadNew(t) \/ ReadNotModified(t) \/ ReopenNothing(t) \/ Deliver(t)
    BY <1>1, <1>8 DEF FetchUrl, LookupFails, LookupNotFound, IsUrlValid, Condition, GetTempFile,
       ReadFails, ReadNew, ReadNotModified, ReopenNothing, Deliver, common
<1> QED  BY <1>2, <1>3, <1>4, <1>5, <1>6, <1>7, <1>8 DEF Fetch

\* A fetch that ends, throws or starts anew has asked nothing yet.
LEMMA AskedNothing ==
    ASSUME Typed', NEW t \in Threads, hand'[t] = 0, asked'[t] = 0,
           at'[t] \in {"idle", "lookup", "plain", "condition"}
    PROVE  KnowsOf(t)'
<1>1. url'[t] \in Urls /\ version'[url'[t]] \in Nat
    BY DEF Typed
<1> QED  BY <1>1 DEF KnowsOf

\* What a thread knows after its own step.
LEMMA FetchKnows ==
    ASSUME CInv, NEW t \in Threads, Fetch(t)
    PROVE  KnowsOf(t)'
<1>0. /\ Typed /\ AtHandOf(t) /\ KnowsOf(t) /\ Typed' /\ AtHandOf(t)'
    BY FetchKeeps DEF CInv, Knows, FInv, AtHand
<1>1. /\ url[t] \in Urls /\ asked[t] \in Nat /\ reply[t] \in Nat /\ etag[t] \in Nat
      /\ version[url[t]] \in Nat /\ newest[url[t]] \in Nat
    BY <1>0 DEF Typed
<1>2. CASE Throw(t) /\ hand'[t] = 0
    BY <1>0, <1>2, GoesTo, AskedNothing
<1>3. ASSUME NEW u \in Urls, NEW c \in BOOLEAN, FetchUrl(t, u, c) PROVE KnowsOf(t)'
    <2>1. /\ at[t] = "idle" /\ at'[t] \in {"lookup", "plain"} /\ UNCHANGED <<hand, asked>>
        BY <1>0, <1>3, GoesTo DEF FetchUrl, answer
    <2>2. hand'[t] = 0 /\ asked'[t] = 0
        BY <1>0, <2>1 DEF AtHandOf, KnowsOf
    <2> QED  BY <1>0, <2>1, <2>2, AskedNothing
<1>4. CASE LookupFound(t) \/ Reopen(t)
    <2>1. PICK e \in InCache(url[t]) : Has(t)'.of = e
        BY <1>4, FoundMoves DEF CInv
    <2>2. /\ UNCHANGED <<url, reply, etag, asked, content, version, newest, late>>
          /\ \/ at[t] = "lookup" /\ at'[t] = "valid"
             \/ at[t] = "reopen" /\ at'[t] = "cached"
        BY <1>0, <1>4, GoesTo DEF LookupFound, Reopen, Found, request, answer, common
    <2>3. e \in cached /\ e[1] = url[t] /\ content[e[2]].body \in Nat
        BY <1>0 DEF InCache, Typed, Entries
    <2>4. url[t] \notin late => content[e[2]].body >= asked[t]
        BY <1>0, <1>1, <2>2, <2>3 DEF CInv, Newest, KnowsOf
    <2> QED  BY <1>0, <2>1, <2>2, <2>3, <2>4 DEF KnowsOf
<1>5. CASE LookupNotFound(t) \/ IsUrlValid(t) \/ ReopenNothing(t) \/ Deliver(t)
    <2>1. /\ \/ at[t] = "lookup" /\ at'[t] = "plain"
             \/ at[t] = "valid" /\ at'[t] \in {"cached", "release"}
             \/ at[t] = "reopen" /\ at'[t] = "cached"
             \/ at[t] \in {"cached", "new"} /\ at'[t] = "done"
          /\ UNCHANGED <<hand, url, reply, etag, asked, streams, content, version, newest, late>>
        BY <1>0, <1>5, GoesTo
           DEF LookupNotFound, IsUrlValid, ReopenNothing, Deliver, request, answer, files, common
    <2>2. Has(t)' = Has(t)
        BY <2>1 DEF Has
    <2> QED  BY <1>0, <2>1, <2>2 DEF KnowsOf, AtHandOf
<1>6. CASE ReleaseForValidation(t)
    <2>1. /\ at[t] = "release" /\ hand'[t] = 0 /\ at'[t] = "condition" /\ asked' = asked
        BY <1>0, <1>6, GoesTo DEF ReleaseForValidation, answer, Typed
    <2> QED  BY <1>0, <2>1, AskedNothing DEF KnowsOf
<1>7. CASE Condition(t) /\ ~Throw(t)
    <2>1. PICK e \in InCache(url[t]) : etag' = [etag EXCEPT ![t] = content[e[2]].etag]
        BY <1>7 DEF Condition
    <2>2. /\ at[t] = "condition" /\ at'[t] = "validate" /\ hand[t] = 0
          /\ UNCHANGED <<hand, url, reply, asked, version, newest, late>>
        BY <1>0, <1>7, GoesTo DEF Condition, AtHandOf, request, common
    <2>3. etag'[t] = content[e[2]].etag
        BY <1>0, <2>1 DEF Typed
    <2>4. url[t] \notin late => etag'[t] <= newest[url[t]]
        BY <2>3 DEF CInv, Newest, InCache
    <2> QED  BY <1>0, <2>2, <2>4 DEF KnowsOf
<1>8. CASE GetTempFile(t) /\ hand'[t] # 0
    <2>1. Has(t)'.of = NoEntry
        BY <1>8, GetTempFileMoves DEF CInv
    <2>2. /\ asked' = [asked EXCEPT ![t] = version[url[t]]] /\ UNCHANGED <<at, url, reply, etag>>
          /\ UNCHANGED <<version, newest, late>> /\ at[t] \in {"plain", "validate"}
        BY <1>0, <1>8, GoesTo DEF GetTempFile, request, common
    <2>3. asked'[t] = version[url[t]]
        BY <1>0, <2>2 DEF Typed
    <2> QED  BY <1>0, <1>1, <2>1, <2>2, <2>3 DEF KnowsOf
<1>9. CASE ReadNew(t)
    <2>1. /\ at'[t] \in {"store", "new"} /\ reply'[t] = version[url[t]]
          /\ UNCHANGED <<hand, url, asked, version>>
        BY <1>0, <1>9, GoesTo DEF ReadNew, Typed, request, common
    <2> QED  BY <1>0, <1>1, <2>1 DEF KnowsOf, AtHandOf
<1>10. CASE ReadNotModified(t)
    <2>1. /\ at[t] = "validate" /\ at'[t] = "update" /\ reply'[t] = etag[t] /\ hand'[t] = 0
          /\ etag[t] = version[url[t]] /\ UNCHANGED <<url, asked, version, newest, late>>
        BY <1>0, <1>10, GoesTo DEF ReadNotModified, Typed, request, common
    <2> QED  BY <1>0, <1>1, <2>1 DEF KnowsOf
<1>11. CASE UpdateResponse(t) /\ ~Throw(t)
    <2>1. /\ at[t] = "update" /\ at'[t] = "reopen" /\ hand[t] = 0
          /\ UNCHANGED <<hand, url, reply, asked, version, newest, late>>
        BY <1>0, <1>11, GoesTo DEF UpdateResponse, AtHandOf, request, answer, common
    <2> QED  BY <1>0, <2>1 DEF KnowsOf
<1>12. CASE NotStored(t) \/ \E i \in Ids : Stored(t, i)
    <2>1. /\ at[t] = "store" /\ at'[t] = "new" /\ UNCHANGED <<hand, url, reply, asked, version>>
        BY <1>0, <1>12, GoesTo DEF NotStored, Stored, request, answer, common
    <2> QED  BY <1>0, <2>1 DEF KnowsOf, AtHandOf
<1>13. CASE Redirect(t)
    <2>1. hand'[t] = 0 /\ asked'[t] = 0 /\ at'[t] \in {"lookup", "plain"}
        BY <1>0, <1>13, GoesTo DEF Redirect, Typed
    <2> QED  BY <1>0, <2>1, AskedNothing
<1>14. CASE Throw(t)
    BY <1>0, <1>2, <1>14, GoesTo
<1>15. CASE LookupFails(t) \/ ReadFails(t) \/ StoreFails(t) \/ Delete(t)
    <2>1. Throw(t)
        BY <1>15 DEF LookupFails, ReadFails, StoreFails, Delete
    <2> QED  BY <1>14, <2>1
<1>16. CASE GetTempFile(t)
    <2>1. hand'[t] # 0 \/ Throw(t)
        <3> SUFFICES ASSUME ~Throw(t) PROVE hand'[t] # 0
            OBVIOUS
        <3>1. PICK n \in Free : hand' = [hand EXCEPT ![t] = n]
            BY <1>16 DEF GetTempFile, FreeNumbers
        <3> QED  BY <1>0, <3>1 DEF Free, Numbers, Typed
    <2> QED  BY <1>8, <1>14, <1>16, <2>1
<1>17. (\E u \in Urls, c \in BOOLEAN : FetchUrl(t, u, c)) => KnowsOf(t)'
    BY <1>3
<1> QED
    BY <1>4, <1>5, <1>6, <1>7, <1>9, <1>10, <1>11, <1>12, <1>13, <1>14, <1>15, <1>16, <1>17 DEF Fetch

\* A step of one thread leaves what the others want and know.
LEMMA OthersAsk ==
    ASSUME Typed, NEW t \in Threads, Fetch(t), NEW q \in Threads \ {t}
    PROVE  UNCHANGED <<url[q], reply[q], etag[q], asked[q]>>
<1>1. CASE Throw(t)
    BY <1>1, GoesTo
<1>2. CASE UNCHANGED <<request, answer>>
    BY <1>2 DEF request, answer
<1>3. ASSUME NEW u \in Urls, NEW c \in BOOLEAN, FetchUrl(t, u, c)
      PROVE  UNCHANGED <<url[q], reply[q], etag[q], asked[q]>>
    BY <1>3 DEF FetchUrl, answer, Typed
<1>4. CASE Condition(t) \/ GetTempFile(t)
    BY <1>1, <1>4 DEF Condition, GetTempFile, request, Typed
<1>5. CASE ReadNew(t) \/ ReadNotModified(t)
    BY <1>5 DEF ReadNew, ReadNotModified, request, Typed
<1>6. CASE Redirect(t)
    BY <1>6 DEF Redirect, Typed
<1>7. CASE LookupFound(t) \/ Reopen(t)
    BY <1>2, <1>7 DEF LookupFound, Reopen, Found
<1>8. CASE \/ LookupNotFound(t) \/ IsUrlValid(t) \/ ReleaseForValidation(t) \/ ReopenNothing(t)
           \/ (\E i \in Ids : Stored(t, i)) \/ NotStored(t) \/ Deliver(t)
    BY <1>2, <1>8 DEF LookupNotFound, IsUrlValid, ReleaseForValidation, ReopenNothing, Stored,
       NotStored, Deliver
<1>9. CASE LookupFails(t) \/ ReadFails(t) \/ StoreFails(t) \/ Delete(t)
    BY <1>1, <1>9 DEF LookupFails, ReadFails, StoreFails, Delete
<1>10. CASE UpdateResponse(t)
    BY <1>1, <1>2, <1>10 DEF UpdateResponse
<1> QED
    BY <1>3, <1>4, <1>5, <1>6, <1>7, <1>8, <1>9, <1>10 DEF Fetch

LEMMA CInvKeeps == CInv /\ [ClientNext]_clientVars => CInv'
<1> SUFFICES ASSUME CInv, [ClientNext]_clientVars PROVE CInv'
    OBVIOUS
<1>0. FInv' /\ Typed' /\ \A u \in Urls : version[u] \in Nat /\ newest[u] \in Nat
    BY FInvKeeps DEF CInv, FInv, Typed
<1>1. ASSUME NEW t \in Threads, Fetch(t) PROVE CInv'
    <2>1. /\ Newest' /\ late \subseteq late' /\ version' = version
          /\ \A o \in open : content'[o[2][2]].body = content[o[2][2]].body
          /\ \A u \in Urls : newest'[u] >= newest[u]
        BY <1>1, FetchBodies
    <2>2. KnowsOf(t)'
        BY <1>1, FetchKnows
    <2>3. ASSUME NEW q \in Threads \ {t} PROVE KnowsOf(q)'
        <3>1. /\ at'[q] = at[q] /\ hand'[q] = hand[q] /\ (hand[q] # 0 => Has(q)' = Has(q))
            BY <1>1, FetchKeeps DEF CInv, Moved, Others
        <3>2. UNCHANGED <<url[q], reply[q], etag[q], asked[q]>>
            BY <1>1, OthersAsk DEF CInv, FInv
        <3>3. \A u \in Urls : version'[u] >= version[u] /\ newest'[u] >= newest[u]
            BY <1>0, <2>1
        <3> QED  BY <1>0, <2>1, <3>1, <3>2, <3>3, StillKnows
    <2> QED  BY <1>0, <2>1, <2>2, <2>3 DEF CInv, Knows
<1>2. ASSUME UNCHANGED <<at, hand, url, reply, etag, asked, streams>>, late' = late, Newest',
             \A u \in Urls : version'[u] >= version[u], newest' = newest,
             \A o \in open : content'[o[2][2]].body = content[o[2][2]].body
      PROVE  CInv'
    <2>1. \A q \in Threads : Has(q)' = Has(q)
        BY <1>2 DEF Has
    <2>2. \A u \in Urls : newest'[u] >= newest[u]
        BY <1>0, <1>2
    <2>3. \A q \in Threads : KnowsOf(q)'
        BY <1>0, <1>2, <2>1, <2>2, StillKnows
    <2> QED  BY <1>0, <1>2, <2>3 DEF CInv, Knows
<1>3. ASSUME NEW u \in Urls, Collect(u) PROVE CInv'
    <2>1. /\ Newest' /\ \A o \in open : content'[o[2][2]].body = content[o[2][2]].body
        BY <1>3, ForgetsBody DEF Collect, common
    <2> QED  BY <1>0, <1>2, <1>3, <2>1 DEF Collect, request, answer, files, common
<1>4. ASSUME NEW u \in Urls, Change(u) PROVE CInv'
    <2>1. \A v \in Urls : version'[v] >= version[v]
        BY <1>0, <1>4 DEF Change, CInv, FInv, Typed
    <2>2. UNCHANGED <<cached, open, content, newest, late>>
        BY <1>4 DEF Change, cacheVars
    <2>3. Newest' /\ \A o \in open : content'[o[2][2]].body = content[o[2][2]].body
        BY <2>2, SameBodies DEF CInv, Newest
    <2> QED  BY <1>2, <1>4, <2>1, <2>2, <2>3 DEF Change, request, answer, files
<1>5. CASE UNCHANGED clientVars
    <2>1. Newest' /\ \A o \in open : content'[o[2][2]].body = content[o[2][2]].body
        BY <1>5, SameBodies DEF clientVars, cacheVars, CInv, Newest
    <2> QED  BY <1>0, <1>2, <1>5, <2>1 DEF clientVars
<1> QED  BY <1>1, <1>3, <1>4, <1>5 DEF ClientNext

\* What is stored and what the threads know of it.
THEOREM BodiesInvariance == ClientSpec => []CInv
<1>1. ClientInit => CInv
    <2> SUFFICES ASSUME ClientInit PROVE CInv
        OBVIOUS
    <2>1. AnyUrl \in Urls
        BY LocationAssumption DEF AnyUrl
    <2>2. Newest /\ Knows
        BY <2>1 DEF ClientInit, CacheInit, Newest, Knows, KnowsOf
    <2> QED  BY <2>2, InitFInv DEF CInv
<1> QED  BY <1>1, CInvKeeps, PTL DEF ClientSpec

\* Nobody is handed a body older than what the server had when he asked, although
\* the entry is found again by its URL, unless an answer for that URL was stored
\* after a newer one (HTTPConnect.cc:894-919).
THEOREM HandsOutCurrent == ClientSpec => []Current
<1>1. CInv => Current
    <2> SUFFICES ASSUME CInv, NEW t \in Threads, at[t] \in {"cached", "new", "done"},
                        hand[t] # 0, url[t] \notin late
                 PROVE  Body(t) >= asked[t]
        BY DEF Current
    <2>1. /\ KnowsOf(t) /\ AtHandOf(t) /\ reply[t] \in Nat /\ asked[t] \in Nat
          /\ Stream(hand[t]) = Has(t)
        BY HasOne DEF CInv, Knows, FInv, AtHand, Typed
    <2> QED  BY <2>1 DEF KnowsOf, AtHandOf, Body, Cached
<1> QED  BY <1>1, BodiesInvariance, PTL

\* update_response() may write the ETag of one body to the entry of another, but
\* never one that is newer than the body (HTTPCache.cc:1331), but for that exception.
THEOREM TagsFit == ClientSpec => []TagFits
<1>1. CInv => TagFits
    BY DEF CInv, Newest, TagFits
<1> QED  BY <1>1, BodiesInvariance, PTL
====
