---------------------------- MODULE MCSmtpSession ----------------------------
(***************************************************************************)
(* An instance of SmtpSession for TLC. alice's first route takes one       *)
(* mailbox and her second one every other address of its domain; bob's     *)
(* route names a whole address. Of the three addresses two are of one      *)
(* mailbox, written differently, and the third quotes an "@".              *)
(***************************************************************************)
EXTENDS SmtpSession

CONSTANTS alice, bob, eve, pa, pb, ra, rx, rb

MCPasswordOf == [u \in Users |-> IF u = alice THEN pa ELSE pb]

MCLower == [w \in {"x", "X", "t", "d", "D", "+", "@"} |->
              CASE w = "X" -> "x" [] w = "D" -> "d" [] OTHER -> w]

plain  == <<"x", "@", "d">>
tagged == <<"X", "+", "t", "@", "D">>
quoted == <<"x", "@", "d", "@", "t">>

MCAddresses == {plain, tagged, quoted}
MCMailboxOf == [a \in MCAddresses |->
    IF a = quoted THEN [local |-> <<"x", "@", "d">>, domain |-> <<"t">>]
                  ELSE [local |-> <<"x">>, domain |-> <<"d">>]]

MCRouteList ==
    << [name |-> rx, username |-> alice, rcpt |-> <<>>,
        rcpt_domain |-> <<"d">>, rcpt_localpart |-> <<"x">>],
       [name |-> ra, username |-> alice, rcpt |-> <<>>,
        rcpt_domain |-> <<"d">>, rcpt_localpart |-> <<>>],
       [name |-> rb, username |-> bob, rcpt |-> plain,
        rcpt_domain |-> <<>>, rcpt_localpart |-> <<>>] >>
=============================================================================
