---------------------------- MODULE HitHandlerInv ----------------------------
(* The inductive invariant behind InRange and WholeRange of HitHandler.      *)
EXTENDS HitHandler

\* A handler that waits for no seek: its cursor is where the descriptor is,
\* unless the end of the file was met and the cursor put to the range's end.
Cursor ==
  \A r \in Readers : hit[r].state = "open" /\ ~hit[r].pending_seek =>
    /\ head[r] = hit[r].range_start
    /\ head[r] + sent[r] = offset[r]
    /\ offset[r] <= hit[r].pos
    /\ hit[r].pos # offset[r] => ended[r] /\ hit[r].pos = hit[r].range_end
    /\ ended[r] => hit[r].pos = hit[r].range_end
    /\ hit[r].pos <= hit[r].range_end

\* A pending seek has been announced by no None, its range is valid, and no file
\* that still holds what lookup found is shorter than it was then.
Ranges ==
  \A r \in Readers : hit[r].state = "open" =>
    /\ hit[r].range_start <= hit[r].range_end
    /\ hit[r].range_end <= hit[r].total_len
    /\ hit[r].pending_seek => ~ended[r]
    /\ opened[r] <= gen
    /\ gen = opened[r] => hit[r].total_len <= len

\* The file was long enough, so the cursor never left the descriptor.
Sound ==
  \A r \in Readers : hit[r].state = "open" /\ ~hit[r].pending_seek /\ gen = opened[r] =>
    hit[r].pos = offset[r]

\* Nothing has been sent to a handler that is not open yet.
Fresh == \A r \in Readers : hit[r].state = "none" =>
           head[r] = 0 /\ sent[r] = 0 /\ ~ended[r]

IInv == TypeOK /\ Cursor /\ Ranges /\ Sound /\ Fresh

=============================================================================
