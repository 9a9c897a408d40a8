--------------------------- MODULE DeviceSettings ---------------------------
(***************************************************************************)
(* What the device is configured with and who writes it: the rows of the   *)
(* parameter database (script/update_psm_db.py) and the certificate        *)
(* directory /etc/evp, written by the scripts of the Debian package        *)
(* (script/mk-deb.sh) and by the user at any moment.                       *)
(*                                                                         *)
(* Of the rows only those the agent tells values of apart are kept; the    *)
(* port and the platform are written and read like the URL.                *)
(***************************************************************************)

CONSTANTS
  Pairs,        \* certificate/key pairs the user has
  Placeholder   \* the pair of empty files the package creates

ASSUME SettingsAssumption == Placeholder \notin Pairs

Absent == "absent"
Url == {"hub", "provisioning"}
Tls == {"on", "off"}
Kind == {"cert", "key"}
Setting == {"url", "tls", "projectId", "token", "file"}
File == (Pairs \cup {Placeholder}) \X Kind

VARIABLES
  row,      \* rows of psm_data; projectId and token: is the value not empty
  files,    \* files of /etc/evp: the pair and the suffix of the name
  package   \* next command of postinst or postrm, "installed" or "purged"

settings == <<row, files, package>>

Rows == [url : Url \cup {Absent}, tls : Tls \cup {Absent},
         projectId : BOOLEAN, token : BOOLEAN]

SettingsTypeOK ==
  /\ row \in Rows
  /\ files \in SUBSET File
  /\ package \in {"purged", "touchCert", "touchKey", "setUrl", "setTls", "installed", "purging"}

NoRows == [url |-> Absent, tls |-> Absent, projectId |-> FALSE, token |-> FALSE]

SettingsInit ==
  /\ row = NoRows
  /\ files = {}
  /\ package = "purged"

-----------------------------------------------------------------------------
(* The package.  dpkg runs postinst after a first installation, a purge or *)
(* an upgrade alike; an interrupted postinst is run again from the start.  *)

Unpack ==
  /\ package' = "touchCert"
  /\ UNCHANGED <<row, files>>

\* touch creates an empty file
Touch(kind, next) ==
  /\ files' = files \cup {<<Placeholder, kind>>}
  /\ package' = next
  /\ UNCHANGED row

TouchCert == package = "touchCert" /\ Touch("cert", "touchKey")
TouchKey == package = "touchKey" /\ Touch("key", "setUrl")

\* A row that cannot be written is a warning and postinst goes on
SetDefaultUrl ==
  /\ package = "setUrl"
  /\ \/ row' = [row EXCEPT !.url = "hub"]
     \/ UNCHANGED row
  /\ package' = "setTls"
  /\ UNCHANGED files

SetDefaultTls ==
  /\ package = "setTls"
  /\ \/ row' = [row EXCEPT !.tls = "off"]
     \/ UNCHANGED row
  /\ package' = "installed"
  /\ UNCHANGED files

Postinst == TouchCert \/ TouchKey \/ SetDefaultUrl \/ SetDefaultTls

\* postrm purge removes the database first, then /etc/evp
PurgeRows ==
  /\ row' = NoRows
  /\ package' = "purging"
  /\ UNCHANGED files

PurgeFiles ==
  /\ package = "purging"
  /\ files' = {}
  /\ package' = "purged"
  /\ UNCHANGED row

Purge == PurgeRows \/ PurgeFiles

-----------------------------------------------------------------------------
(* The user, and whoever else writes the parameters (external)             *)

\* update_psm_db.py --key --value: insert or replace of one row
UpdatePsmDb(name) ==
  /\ package # "purged"
  /\ \/ name = "url" /\ \E v \in Url : row' = [row EXCEPT !.url = v]
     \/ name = "tls" /\ \E v \in Tls : row' = [row EXCEPT !.tls = v]
     \/ name = "projectId" /\ \E v \in BOOLEAN : row' = [row EXCEPT !.projectId = v]
     \/ name = "token" /\ \E v \in BOOLEAN : row' = [row EXCEPT !.token = v]
  /\ UNCHANGED <<files, package>>

\* cp into and rm from /etc/evp, one file at a time
ChangeFile(name) ==
  /\ package # "purged"
  /\ name = "file"
  /\ \/ \E p \in Pairs, kind \in Kind : files' = files \cup {<<p, kind>>}
     \/ \E f \in files : files' = files \ {f}
  /\ UNCHANGED <<row, package>>

UserStep(name) == UpdatePsmDb(name) \/ ChangeFile(name)

=============================================================================
