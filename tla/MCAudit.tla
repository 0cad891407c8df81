-------------------------------- MODULE MCAudit --------------------------------
(* Two deals closed on two days, so that the cursor can leave the first one *)
(* behind; both for the judge, or the second for the CRM.                   *)
EXTENDS AuditPass, TLC

TwoDays == <<1, 2>>
Judged == <<"judge", "judge">>
JudgedOrChecked == {Judged, <<"judge", "crm">>}
===============================================================================
