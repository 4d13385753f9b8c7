---------------------------------- MODULE Feed ----------------------------------
(***************************************************************************)
(* What the live stream of the collector promises to a connection,         *)
(* without rings, queues, bytes or back-pressure: it is told every event   *)
(* it asked for in order, and where it missed some it is told that.        *)
(* Stream implements it (Stream!IsAFeed).                                  *)
(***************************************************************************)
EXTENDS Integers, Sequences, SequencesExt

CONSTANTS Clients, All

VARIABLES
  said, \* every event broadcast by this process, each with a seq and a kind
  last, \* the seq reached: what is said from here on is above it
  conn  \* client -> its connection: open, filter, base, and what it got

feedVars == <<said, last, conn>>

(* What it gets are seqs, which begin at 1, notices of loss among them,    *)
(* and words that say nothing of either.                                   *)
Loss == 0
IsSeq(x) == x > Loss

Asked(k, e) == e.seq > k.base /\ k.filter \in {All, e.kind}

(* Each event once and in order.                                           *)
Ordered(k) ==
  \A i, j \in DOMAIN k.got :
    i < j /\ IsSeq(k.got[i]) /\ IsSeq(k.got[j]) => k.got[i] < k.got[j]

(* Only what was said and asked for, and a notice wherever something that  *)
(* was asked for is missing before an event that came.                     *)
Genuine(k, log) ==
  \A i \in DOMAIN k.got : IsSeq(k.got[i]) =>
    \E n \in DOMAIN log : log[n].seq = k.got[i] /\ Asked(k, log[n])

NoticedAt(k, i, q) ==
  /\ k.got[i] = Loss
  /\ \A j \in DOMAIN k.got : IsSeq(k.got[j]) => (j < i => k.got[j] < q) /\ (i < j => q < k.got[j])

HolesNoticed(k, log) ==
  \A n \in DOMAIN log :
    LET q == log[n].seq IN
    \/ ~Asked(k, log[n])
    \/ \A i \in DOMAIN k.got : IsSeq(k.got[i]) => k.got[i] < q
    \/ \E i \in DOMAIN k.got : k.got[i] = q \/ NoticedAt(k, i, q)

Honest(k, log) == Ordered(k) /\ Genuine(k, log) /\ HolesNoticed(k, log)

-----------------------------------------------------------------------------
(* Nothing, or one more event, is said.                                    *)
Says ==
  \/ said' = said /\ last' = last
  \/ /\ Len(said') = Len(said) + 1 /\ IsPrefix(said, said')
     /\ last' = Last(said').seq /\ last' > last

(* A connection is owed what is said after it came, and may ask for more.  *)
Opens(c) ==
  ~conn[c].open /\ conn'[c].open /\ conn'[c].base <= last /\ Honest(conn'[c], said')

Receives(c) ==
  /\ conn[c].open /\ conn'[c].open
  /\ conn'[c].filter = conn[c].filter /\ conn'[c].base = conn[c].base
  /\ IsPrefix(conn[c].got, conn'[c].got) /\ Honest(conn'[c], said')

Ends(c) == ~conn'[c].open

Serve == Says /\ \A c \in Clients : Opens(c) \/ Receives(c) \/ Ends(c)

(* Another process: nothing said, nobody connected.                        *)
Renew == said' = <<>> /\ \A c \in Clients : Ends(c)

FeedInit == said = <<>> /\ \A c \in Clients : ~conn[c].open
FeedNext == Serve \/ Renew
FeedSpec == FeedInit /\ [][FeedNext]_feedVars
=============================================================================
