---------------------------- MODULE ChannelLineup ----------------------------
(***************************************************************************)
(* What the queue of a channel promises to the people who program it:      *)
(* entries wait in one total order, at most one of them is on, the one     *)
(* that goes on is the first of the order, and an entry that waits leaves  *)
(* the order only by going on or by being taken out.  How rows, positions    *)
(* and statuses bring this about is PlayoutQueue's matter.                 *)
(***************************************************************************)
EXTENDS Naturals, FiniteSets

CONSTANTS Entry,  \* every entry the channel will ever have
          Nobody  \* nothing is on

VARIABLES upcoming,   \* the entries that wait
          precedes,   \* their order: a set of pairs of entries
          nowPlaying, \* the entry that is on, or Nobody
          known       \* every entry that was ever enqueued

lineup == <<upcoming, precedes, nowPlaying, known>>

\* R orders the elements of S, all of them and nothing else.
TotalOrder(R, S) ==
    /\ R \subseteq S \X S
    /\ \A a, b \in S : a # b => (<<a, b>> \in R) # (<<b, a>> \in R)
    /\ \A a \in S : <<a, a>> \notin R
    /\ \A a, b, c \in S : <<a, b>> \in R /\ <<b, c>> \in R => <<a, c>> \in R

Within(R, S) == {p \in R : p[1] \in S /\ p[2] \in S}

LineupInit ==
    /\ upcoming = {}
    /\ precedes = {}
    /\ nowPlaying = Nobody
    /\ known = {}

\* New entries take their places; those that wait keep their order.
Enqueue ==
    \E new \in SUBSET (Entry \ known) :
        /\ new # {}
        /\ upcoming' = upcoming \cup new
        /\ known' = known \cup new
        /\ TotalOrder(precedes', upcoming')
        /\ Within(precedes', upcoming) = precedes
        /\ UNCHANGED nowPlaying

\* The entry that is on has played.
Finish ==
    /\ nowPlaying # Nobody
    /\ nowPlaying' = Nobody
    /\ UNCHANGED <<upcoming, precedes, known>>

\* The first of the order goes on; never while another entry is.
Start ==
    \E e \in upcoming :
        /\ nowPlaying = Nobody
        /\ \A f \in upcoming : <<f, e>> \notin precedes
        /\ nowPlaying' = e
        /\ upcoming' = upcoming \ {e}
        /\ precedes' = Within(precedes, upcoming \ {e})
        /\ UNCHANGED known

\* Entries are taken out: one by an operator, or every entry of an item that is
\* deleted, which may be on.
Withdraw ==
    \E gone \in SUBSET upcoming :
        /\ gone # {}
        /\ upcoming' = upcoming \ gone
        /\ precedes' = Within(precedes, upcoming \ gone)
        /\ nowPlaying' \in {nowPlaying, Nobody}
        /\ UNCHANGED known

LineupNext == Enqueue \/ Finish \/ Start \/ Withdraw

LineupSpec == LineupInit /\ [][LineupNext]_lineup
=============================================================================
