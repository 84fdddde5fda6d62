------------------------------ MODULE GitReports ------------------------------
(***************************************************************************)
(* What the Git tools make of a query's output (tools/git.rs): git writes  *)
(* fields that each end with a NUL, the tool has a prefix of them and      *)
(* knows whether it is all.                                                *)
(*                                                                         *)
(* A character is a token of its own; a path is a sequence of letters, and *)
(* a number a single digit.  The limits on entries and on lines are        *)
(* constants; the length of a line is left out.                            *)
(***************************************************************************)
EXTENDS Naturals, Sequences, SequencesExt

CONSTANTS
  PathLimit,   \* CHANGED_PATH_LIMIT
  EntryLimit,  \* DIFF_SUMMARY_ENTRY_LIMIT
  LineLimit    \* lines a summary has room for

Nul == "NUL"
Tab == "TAB"
Digit == {"0", "1", "2"}
Value(d) == CASE d = "0" -> 0 [] d = "1" -> 1 [] d = "2" -> 2
NoPath == <<"no path">>

(***************************************************************************)
(* What git writes, with -z.                                               *)
(***************************************************************************)
Field(text) == Append(text, Nul)

StatusBytes(changes) ==
  FlattenSeq([i \in DOMAIN changes |->
    LET c == changes[i] IN
    Field(<<c.x, c.y, " ">> \o c.path) \o IF c.old = NoPath THEN <<>> ELSE Field(c.old)])

NumstatBytes(changes) ==
  FlattenSeq([i \in DOMAIN changes |->
    LET c == changes[i] IN
    IF c.old = NoPath THEN Field(<<c.added, Tab, c.deleted, Tab>> \o c.path)
    ELSE Field(<<c.added, Tab, c.deleted, Tab>>) \o Field(c.old) \o Field(c.path)])

\* The pieces between the NULs; after the last one there is an empty piece.
Fields(bytes) ==
  LET from[i \in 1..Len(bytes) + 1] ==
        IF i > Len(bytes) THEN << <<>> >>
        ELSE LET rest == from[i + 1] IN
             IF bytes[i] = Nul THEN << <<>> >> \o rest
             ELSE << <<bytes[i]>> \o Head(rest) >> \o Tail(rest)
  IN  from[1]

-----------------------------------------------------------------------------
First(s, n) == SubSeq(s, 1, IF Len(s) < n THEN Len(s) ELSE n)

Moved(x) == x \in {"R", "C"}

\* The entries from the i-th field on.  A rename or copy in the index has its
\* old path in the next field.
ParseStatus(bytes, cut) ==
  LET f == Fields(bytes)
      from[i \in 1..Len(f) + 2] ==
        IF i > Len(f) THEN <<>>
        ELSE IF Len(f[i]) < 3 THEN from[i + 1]
        ELSE LET moved == Moved(f[i][1]) IN
             <<[x |-> f[i][1], y |-> f[i][2], path |-> SubSeq(f[i], 4, Len(f[i])),
                old |-> IF moved /\ i < Len(f) THEN f[i + 1] ELSE NoPath]>>
               \o from[IF moved THEN i + 2 ELSE i + 1]
      all == from[1]
      Count(Is(_)) == Len(SelectSeq(all, Is))
      Untracked(e) == e.x = "?" /\ e.y = "?"
      Staged(e) == ~Untracked(e) /\ e.x # " "
      Unstaged(e) == ~Untracked(e) /\ e.y # " "
  IN  [entries |-> First(all, PathLimit), total |-> Len(all), staged |-> Count(Staged),
       unstaged |-> Count(Unstaged), untracked |-> Count(Untracked),
       truncated |-> cut \/ Len(all) > PathLimit]

\* A field is a header when it has two tabs; what has fewer is passed over.  A
\* header without a path has the old and the new one in the two next fields,
\* and ends the list when they are not there.
ParseNumstat(bytes, cut) ==
  LET f == Fields(bytes)
      Header(h) == Len(h) >= 4 /\ h[2] = Tab /\ h[4] = Tab
      from[i \in 1..Len(f) + 3] ==
        IF i > Len(f) THEN <<>>
        ELSE IF ~Header(f[i]) THEN from[i + 1]
        ELSE IF Len(f[i]) > 4
          THEN <<[added |-> f[i][1], deleted |-> f[i][3], old |-> NoPath,
                  path |-> SubSeq(f[i], 5, Len(f[i]))]>> \o from[i + 1]
        ELSE IF i + 2 <= Len(f)
          THEN <<[added |-> f[i][1], deleted |-> f[i][3], old |-> f[i + 1],
                  path |-> f[i + 2]]>> \o from[i + 3]
        ELSE <<>>
      all == from[1]
      Sum(Of(_)) ==
        FoldLeft(LAMBDA n, e : n + (IF Of(e) \in Digit THEN Value(Of(e)) ELSE 0), 0, all)
      Binary(e) == e.added \notin Digit \/ e.deleted \notin Digit
  IN  [entries |-> First(all, EntryLimit), total |-> Len(all),
       additions |-> Sum(LAMBDA e : e.added), deletions |-> Sum(LAMBDA e : e.deleted),
       binary_files |-> Len(SelectSeq(all, Binary)),
       truncated |-> cut \/ Len(all) > EntryLimit]

\* render_diff_summary: the lines shown, and whether some are missing.
Shown(summary) == First(summary.entries, LineLimit)
SummaryTruncated(summary) == summary.truncated \/ Len(Shown(summary)) < summary.total

-----------------------------------------------------------------------------
\* A status in which a file was renamed in the work tree only; its old path is
\* taken for one more change.
MovesInWorkTree(changes) ==
  \E i \in DOMAIN changes : changes[i].old # NoPath /\ changes[i].x \notin {"R", "C"}

\* What repo_state reports of a list of changes: with the whole output its
\* counts are those of the list, the entries are the first ones of it, and
\* without the mark for truncation they are all of it; with a part of the
\* output it is marked, counts nothing that is not there, and every entry but
\* the last is a change of the list (parse_status).
StatusSound(changes) ==
  LET bytes == StatusBytes(changes)
      Of(Is(_)) == Len(SelectSeq(changes, Is))
      Untracked(c) == c.x = "?"
      Staged(c) == c.x \notin {"?", " "}
      Unstaged(c) == c.y \notin {"?", " "}
      whole == ParseStatus(bytes, FALSE)
  IN  ~MovesInWorkTree(changes) =>
      /\ whole.total = Len(changes)
      /\ whole.staged = Of(Staged) /\ whole.unstaged = Of(Unstaged)
      /\ whole.untracked = Of(Untracked)
      /\ IsPrefix(whole.entries, changes)
      /\ ~whole.truncated => whole.entries = changes
      /\ \A n \in 0..Len(bytes) - 1 :
           LET part == ParseStatus(SubSeq(bytes, 1, n), TRUE) IN
           /\ part.truncated
           /\ part.total <= whole.total
           /\ part.staged <= whole.staged /\ part.unstaged <= whole.unstaged
           /\ IsPrefix(First(part.entries, Len(part.entries) - 1), changes)

\* The same of git_diff and its summary (parse_numstat, render_diff_summary).
NumstatSound(changes) ==
  LET bytes == NumstatBytes(changes)
      whole == ParseNumstat(bytes, FALSE)
      Sum(Of(_)) ==
        FoldLeft(LAMBDA n, c : n + (IF Of(c) = "-" THEN 0 ELSE Value(Of(c))), 0, changes)
      Binary(c) == c.added = "-"
  IN  /\ whole.total = Len(changes)
      /\ whole.additions = Sum(LAMBDA c : c.added)
      /\ whole.deletions = Sum(LAMBDA c : c.deleted)
      /\ whole.binary_files = Len(SelectSeq(changes, Binary))
      /\ IsPrefix(Shown(whole), changes)
      /\ ~SummaryTruncated(whole) => Shown(whole) = changes
      /\ \A n \in 0..Len(bytes) - 1 :
           LET part == ParseNumstat(SubSeq(bytes, 1, n), TRUE) IN
           /\ part.truncated
           /\ part.total <= whole.total
           /\ part.additions <= whole.additions /\ part.deletions <= whole.deletions
           /\ IsPrefix(First(part.entries, Len(part.entries) - 1), changes)
=============================================================================
