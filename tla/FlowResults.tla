---------------------------- MODULE FlowResults ----------------------------
(***************************************************************************)
(* The server side of result paging: get_flow_results of                   *)
(* velociraptor_fixed_tools.py and paginate_window_result of               *)
(* velociraptor_mcp_core.py.  The rows of a flow lie in one or more        *)
(* sources; a page is cut out of a window over the sources in order and    *)
(* shortened until its encoding fits the response limit.                   *)
(*                                                                         *)
(* A row is its identity and its encoded size.  A cursor "v1:<offset>" is  *)
(* the offset; Nil stands for a missing cursor.                            *)
(***************************************************************************)
EXTENDS Naturals, Sequences, SequencesExt

CONSTANTS
    PageSize,       \* page_size of the request
    ResponseLimit,  \* RESPONSE_BYTE_LIMIT, in units of row size
    Nil             \* JSON null: no cursor, no page

ASSUME PagingAssumption == PageSize \in Nat \ {0} /\ ResponseLimit \in Nat /\ Nil \notin Nat

Row == [id : Nat, size : Nat]

TotalSize(rows) ==
    LET upto[n \in 0..Len(rows)] == IF n = 0 THEN 0 ELSE upto[n - 1] + rows[n].size
    IN  upto[Len(rows)]

(* Mutant: the offset is not reset after the source it falls into.         *)
DrainedKeepingOffset(state, source) ==
    IF state.want = 0 THEN state
    ELSE IF state.skip >= Len(source) THEN [state EXCEPT !.skip = @ - Len(source)]
    ELSE LET last   == Min({state.skip + state.want, Len(source)})
             window == SubSeq(source, state.skip + 1, last)
         IN  [skip |-> state.skip, want |-> state.want - Len(window), rows |-> state.rows \o window]

(* One turn of the loop over the sources; the backend returns at most      *)
(* `want` rows of a source.                                                *)
Drained(state, source) ==
    IF state.want = 0 THEN state
    ELSE IF state.skip >= Len(source) THEN [state EXCEPT !.skip = @ - Len(source)]
    ELSE LET last   == Min({state.skip + state.want, Len(source)})
             window == SubSeq(source, state.skip + 1, last)
         IN  [skip |-> 0, want |-> state.want - Len(window), rows |-> state.rows \o window]

(* One row more than a page tells whether there is another page.           *)
Window(sources, offset) ==
    LET upto[n \in 0..Len(sources)] ==
          IF n = 0 THEN [skip |-> offset, want |-> PageSize + 1, rows |-> <<>>]
          ELSE Drained(upto[n - 1], sources[n])
    IN  upto[Len(sources)].rows

PageOf(offset, rows, truncated) ==
    [cursor |-> offset, data |-> rows, returned |-> Len(rows), page_size |-> PageSize,
     truncated |-> truncated, next |-> IF truncated THEN offset + Len(rows) ELSE Nil]

(* paginate_window_result: the longest prefix that fits; Nil, for an error, *)
(* when not even one row does or the offset lies after the end.             *)
Page(sources, offset) ==
    LET window    == Window(sources, offset)
        more      == Len(window) > PageSize
        candidate == SubSeq(window, 1, IF more THEN PageSize ELSE Len(window))
        fitting   == {n \in 1..Len(candidate) : TotalSize(SubSeq(candidate, 1, n)) <= ResponseLimit}
        best      == Max(fitting)
    IN  IF offset > Len(FlattenSeq(sources)) THEN Nil
        ELSE IF candidate = <<>> THEN PageOf(offset, <<>>, more)
        ELSE IF fitting = {} THEN Nil
        ELSE PageOf(offset, SubSeq(candidate, 1, best), more \/ best < Len(candidate))
=============================================================================
