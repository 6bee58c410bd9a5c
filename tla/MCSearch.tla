------------------------------ MODULE MCSearch ------------------------------
(* Two mails and short queries. *)
EXTENDS Search, TLC

MCMessage ==
    << [uid |-> 1, subject |-> {"news"}, from |-> {"ann"}, to |-> {"me", "bob"}, first |-> {"me"},
        cc |-> {"eve"}, bcc |-> {}, text |-> {"bill"}, received |-> 1, sent |-> 0,
        unread |-> FALSE, deleted |-> FALSE, size |-> 9, stub |-> 2],
       [uid |-> 4, subject |-> {"bill"}, from |-> {"bob"}, to |-> {"me"}, first |-> {"me"},
        cc |-> {}, bcc |-> {"ann"}, text |-> {"news"}, received |-> 2, sent |-> 2,
        unread |-> TRUE, deleted |-> TRUE, size |-> 3, stub |-> 2] >>

MCVocabulary ==
    {LParen, RParen, Quoted("bill"), Atom("OR"), Atom("NOT"), Atom("UNSEEN"), Atom("BODY"),
     Atom("SINCE"), Atom("2-Jan-1970"), Atom("UID"), Atom("3:*"), Atom("X-NEW")}

MCCivilOf == "2-Jan-1970" :> <<1970, 1, 2>>
MCNumberOf == "5" :> 5
MCPartsOf == "3:*" :> << <<3, Star>> >>
=============================================================================
