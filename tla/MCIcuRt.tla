------------------------------ MODULE MCIcuRt ------------------------------
(* Small instances of IcuRt. *)
EXTENDS IcuRt

\* One command of the platform's send list and one of its get list.
MCCommands == {[dir |-> "RECEIVE", sa |-> 1, bcast |-> FALSE],
               [dir |-> "TRANSMIT", sa |-> 11, bcast |-> FALSE]}

\* get_command sections of config.ini, and the opcodes IRST answers under.
MCGetCommands == <<[op |-> 11, sub |-> 11]>>
MCAnswers == {11}

\* A first section whose op_code is no subaddress: RT_Id_Px refuses 41, which
\* becomes the block of subaddress 31 and is that of the broadcast to 1.
MCHighCommands ==
    MCCommands \cup {[dir |-> "RECEIVE", sa |-> 31, bcast |-> FALSE],
                    [dir |-> "RECEIVE", sa |-> 1, bcast |-> TRUE]}
MCHighGet == <<[op |-> 41, sub |-> 12], [op |-> 11, sub |-> 11]>>
=============================================================================
