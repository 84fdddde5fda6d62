------------------------------ MODULE Transcript ------------------------------
(***************************************************************************)
(* The transcript of the terminal front end (tui/transcript.rs): a         *)
(* sequence of cells that the events append to and complete, and whose     *)
(* finished prefix moves to the terminal's scrollback.                     *)
(*                                                                         *)
(* A text is the sequence of its chunks.  The id of a tool or compaction   *)
(* cell is the one the code stores; the id of an assistant cell is the     *)
(* number of its message, which the code does not store: it is history for *)
(* the properties.  A cell whose text cannot change any more is a "line".  *)
(***************************************************************************)
EXTENDS Naturals, Sequences

Cell(kind, id, text, open) == [kind |-> kind, id |-> id, text |-> text, open |-> open]
Line == Cell("line", 0, <<>>, FALSE)

Streamed == {"assistant", "thinking"}

\* close_open_cells: the cells that grow by deltas, and no others.
CloseOpenCells(cells) ==
    [i \in DOMAIN cells |->
        IF cells[i].kind \in Streamed THEN [cells[i] EXCEPT !.open = FALSE] ELSE cells[i]]

\* push_user, push_notice, push_error, push_plan.
Push(cells) == Append(cells, Line)

StartCompaction(cells, id) == Append(cells, Cell("compaction", id, <<>>, TRUE))

\* The last of the indexes, 0 when there is none.
LastIndex(found) == IF found = {} THEN 0 ELSE CHOOSE i \in found : \A j \in found : j <= i

\* finish_compaction, fail_compaction.
FinishCompaction(cells, id) ==
    LET i == LastIndex({k \in DOMAIN cells : cells[k].kind = "compaction" /\ cells[k].id = id})
    IN IF i = 0 THEN cells ELSE [cells EXCEPT ![i].open = FALSE]

\* append_assistant, append_thinking: the last cell grows when it is of this kind
\* and open, else a new one opens.
AppendDelta(cells, kind, id, chunk) ==
    LET n == Len(cells)
    IN IF n > 0 /\ cells[n].kind = kind /\ cells[n].open
       THEN [cells EXCEPT ![n].text = Append(@, chunk)]
       ELSE Append(CloseOpenCells(cells), Cell(kind, id, <<chunk>>, TRUE))

\* Mutant of FinalizeAssistant: the full text is dropped when no cell is open.
FinalizeOpenOnly(cells, id, full) ==
    LET i == LastIndex({k \in DOMAIN cells : cells[k].kind = "assistant"})
    IN CloseOpenCells(IF i # 0 /\ cells[i].open THEN [cells EXCEPT ![i].text = full] ELSE cells)

\* finalize_assistant: the full text replaces that of the last assistant cell when
\* it is open, and gets a cell of its own otherwise.
FinalizeAssistant(cells, id, full) ==
    LET i == LastIndex({k \in DOMAIN cells : cells[k].kind = "assistant"})
    IN CloseOpenCells(
         IF i # 0 /\ cells[i].open THEN [cells EXCEPT ![i].text = full]
         ELSE IF full # <<>> THEN Append(cells, Cell("assistant", id, full, FALSE))
         ELSE cells)

PushTool(cells, id) == Append(CloseOpenCells(cells), Cell("tool", id, <<>>, TRUE))

\* finish_tool: the last running call with the id, else the last running call.
FinishTool(cells, id) ==
    LET same == LastIndex({k \in DOMAIN cells : cells[k].kind = "tool" /\ cells[k].open /\ cells[k].id = id})
        any  == LastIndex({k \in DOMAIN cells : cells[k].kind = "tool" /\ cells[k].open})
        i    == IF same # 0 THEN same ELSE any
    IN IF i = 0 THEN cells ELSE [cells EXCEPT ![i].open = FALSE]

\* drain_finalized_lines: how many cells leave for the scrollback.
Finalized(cells) ==
    CHOOSE n \in 0..Len(cells) :
        /\ \A i \in 1..n : ~cells[i].open
        /\ n = Len(cells) \/ cells[n + 1].open
Drained(cells) == SubSeq(cells, 1, Finalized(cells))
Kept(cells)    == SubSeq(cells, Finalized(cells) + 1, Len(cells))
==============================================================================
