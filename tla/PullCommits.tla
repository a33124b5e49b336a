---------------------------- MODULE PullCommits ----------------------------
(***************************************************************************)
(* The commits of a pull request: which ones it has, in which order an     *)
(* approval rule takes them, and which ones its options ignore             *)
(* (policy/approval/approve.go, pull/github.go).                           *)
(***************************************************************************)
EXTENDS Naturals, Sequences, SequencesExt

CONSTANTS
  Users,
  Listing,    \* every commit, in the order GitHub lists them: parents first
  Base,       \* the commits that are already in the base branch
  Parents,    \* the parents of each commit, the first one first
  UsersOf,    \* Commit.Users(): its author and its committer
  Web         \* the commits made in GitHub's UI or API (CommittedViaWeb)

Shas == ToSet(Listing)

Place(s) == CHOOSE i \in 1..Len(Listing) : Listing[i] = s

ASSUME CommitsAssumption ==
  /\ Listing \in Seq(Shas)
  /\ \A i, j \in 1..Len(Listing) : Listing[i] = Listing[j] => i = j
  /\ Base \subseteq Shas /\ Web \subseteq Shas
  /\ UsersOf \in [Shas -> SUBSET Users]
  /\ \A s \in Shas : /\ Parents[s] \in Seq(Shas)
                     /\ \A p \in ToSet(Parents[s]) : Place(p) < Place(s)
  /\ \A s \in Base : ToSet(Parents[s]) \subseteq Base

(* A commit with everything it was made from. *)
History[s \in Shas] == {s} \union UNION {History[p] : p \in ToSet(Parents[s])}

(* The commits of the pull request whose head is h. *)
CommitsOf(h) == History[h] \ Base

(* sortCommits: from the head, from first parent to first parent. *)
SortCommits(commits, head) ==
  LET from[s \in Shas] ==
        IF s \notin commits THEN <<>>
        ELSE IF Parents[s] = <<>> THEN <<s>>
        ELSE <<s>> \o from[Parents[s][1]]
  IN  from[head]

(* isUpdateMerge, of a commit among the commits that were sorted. *)
IsUpdateMerge(sorted, c) ==
  /\ Len(Parents[c]) = 2
  /\ c \in Web
  /\ Parents[c][1] \in ToSet(sorted)
  /\ Parents[c][2] \notin ToSet(sorted)

(* isIgnoredCommit: all the users it has are ignored, and it has some. *)
IsIgnoredCommit(actors, c) == UsersOf[c] # {} /\ UsersOf[c] \subseteq actors

Sorted(h) == SortCommits(CommitsOf(h), h)

(* filteredCommits, as a set: those of the sorted commits that count. *)
FilteredCommits(options, h) ==
  LET sorted == Sorted(h)
  IN  {c \in ToSet(sorted) : /\ options.ignoreUpdateMerges => ~IsUpdateMerge(sorted, c)
                             /\ ~IsIgnoredCommit(options.ignoreCommitsBy, c)}

(* The first of filteredCommits, which are the most recent first. *)
MostRecent(options, h) ==
  LET sorted == Sorted(h)
      commits == FilteredCommits(options, h)
  IN  sorted[SelectInSeq(sorted, LAMBDA c : c \in commits)]

-----------------------------------------------------------------------------
(***************************************************************************)
(* What the options promise, for comparison: an update merge brings in     *)
(* commits of the base branch only, and every other commit of the pull     *)
(* request counts, on whichever parent's side it is.                       *)
(***************************************************************************)
MergesBase(h, c) ==
  /\ c \in Web
  /\ Len(Parents[c]) = 2
  /\ Parents[c][1] \in CommitsOf(h)
  /\ Parents[c][2] \in Base

Relevant(options, h) ==
  {c \in CommitsOf(h) : /\ ~(options.ignoreUpdateMerges /\ MergesBase(h, c))
                        /\ ~IsIgnoredCommit(options.ignoreCommitsBy, c)}
=============================================================================
