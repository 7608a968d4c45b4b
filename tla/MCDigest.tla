------------------------------ MODULE MCDigest ------------------------------
(***************************************************************************)
(* Digest for TLC: day 1 is a Monday, a day has three hours, and the quiet *)
(* hours users choose go over midnight or cover the hour of the cron job.  *)
(***************************************************************************)
EXTENDS Digest, TLC

CONSTANTS u1, u2

AllOrMail == u1 :> Channels @@ u2 :> {"email"}
FirstDay == {1}
QuietNights == {<<2, 1>>, <<1, 2>>, None}
=============================================================================
