--------------------------- MODULE ReplayedExport ---------------------------
(***************************************************************************)
(* What an export promises its client, with the warehouse left out: the    *)
(* body is the one a replay of the requested range would produce, chunk by *)
(* chunk; it may break off, visibly, but a body that ends as if it were    *)
(* whole is whole.                                                         *)
(*                                                                         *)
(* Export implements this specification with rows from two sources.        *)
(***************************************************************************)
EXTENDS Naturals, Sequences

CONSTANTS Exports,       \* the resolved requests: from, to, dataset, format
          Replay(_, _),  \* Replay(d, s): the rows of step s in dataset d
          NoExport       \* no export under way

VARIABLES export,  \* the request being answered, or NoExport
          body,    \* the chunks the client has received
          ending   \* "none", "open", "whole", "broken" or "gone"

exportVars == <<export, body, ending>>

Prologue == [kind |-> "prologue", step |-> 0, rows |-> {}]

Epilogue == [kind |-> "epilogue", step |-> 0, rows |-> {}]

StepChunk(d, s) == [kind |-> "rows", step |-> s, rows |-> Replay(d, s)]

ExportInit ==
    /\ export = NoExport
    /\ body = <<>>
    /\ ending = "none"

Begin ==
    /\ ending = "none"
    /\ export' \in Exports
    /\ body' = <<>>
    /\ ending' = "open"

Last == body[Len(body)]

NextStep == IF Last.kind = "prologue" THEN export.from ELSE Last.step + 1

\* No step from a up to (not including) b has a row.
Blank(a, b) == \A s \in a .. b - 1 : Replay(export.dataset, s) = {}

Deliver ==
    /\ ending = "open"
    /\ \/ body = <<>> /\ body' = <<Prologue>>
       \/ /\ body # <<>>
          /\ Last.kind # "epilogue"
          /\ \/ \E s \in NextStep .. export.to :
                   /\ Replay(export.dataset, s) # {}
                   /\ Blank(NextStep, s)
                   /\ body' = Append(body, StepChunk(export.dataset, s))
             \/ /\ export.format = "json"
                /\ Blank(NextStep, export.to + 1)
                /\ body' = Append(body, Epilogue)
    /\ UNCHANGED <<export, ending>>

Whole ==
    /\ body # <<>>
    /\ \/ export.format = "json" /\ Last.kind = "epilogue"
       \/ export.format = "csv" /\ Blank(NextStep, export.to + 1)

Finish ==
    /\ ending = "open"
    /\ Whole
    /\ ending' = "whole"
    /\ UNCHANGED <<export, body>>

\* The server fails in mid-stream, or the client goes away.
Break ==
    /\ ending = "open"
    /\ ending' \in {"broken", "gone"}
    /\ UNCHANGED <<export, body>>

Forget ==
    /\ ending \in {"whole", "broken", "gone"}
    /\ export' = NoExport
    /\ body' = <<>>
    /\ ending' = "none"

ExportNext == Begin \/ Deliver \/ Finish \/ Break \/ Forget

ExportSpec == ExportInit /\ [][ExportNext]_exportVars
=============================================================================
