-------------------------- MODULE MCNotification --------------------------
(***************************************************************************)
(* Instances of Notification for TLC.                                      *)
(***************************************************************************)
EXTENDS Notification

LogAndMail == <<"log", "smtp">>
AllChannels == <<"log", "webhook", "smtp">>
OneMalformed == {2}
NoneMalformed == {}
=============================================================================
