---------------------------- MODULE MCFormatCodes ----------------------------
(* The conversions of the wire codec checked together: FormatCodes and the
   CommandTag parser, each over every input, as one state space. *)
EXTENDS FormatCodes

CONSTANTS Width, MaxCount

VARIABLES cmd, n

Tags == INSTANCE CommandTag

MCInit == Init /\ Tags!Init
MCNext == Next /\ Tags!Next
MCSpec == MCInit /\ [][MCNext]_<<vars, Tags!vars>>

(* RowsAffected gives the server's count for a row-affecting command and 0
   for any other (CommandTag.RowsAffectedIsCount). *)
RowsAffectedIsCount == Tags!RowsAffectedIsCount
=============================================================================
