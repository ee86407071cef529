----------------------------- MODULE MCDispatcher -----------------------------
(***************************************************************************)
(* Seven two-call programs beside every two-call program, for TLC.         *)
(***************************************************************************)
EXTENDS Dispatcher

Probes == {<<"send", "send">>, <<"recv", "recv">>, <<"await", "get">>, <<"select", "recvSignal">>,
           <<"recvDone", "send">>, <<"withCancel", "recvDone">>, <<"go", "send">>}

Pairs == Probes \X (Ops \X Ops)
===============================================================================
