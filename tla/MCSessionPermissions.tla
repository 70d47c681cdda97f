------------------------ MODULE MCSessionPermissions ------------------------
(* Instances of SessionPermissions.  The config is empty, or it changes      *)
(* between allowing browser and shell and denying fs.write; the project      *)
(* denies the shell.                                                         *)
EXTENDS SessionPermissions

CONSTANTS s1, s2, r1, r2, b1

(* A tool named like its key, one that takes commands, and two that share a *)
(* key neither is named like.                                               *)
ManyTools == {"fs.write", "shell.run", "browser.act.gmailSendDraft"}
SharedKey == {"fs.write", "fs.edit", "browser.act.gmailSendDraft"}

Plain == {{}}
PlainAndDanger == {{}, {"danger"}}

Table(write, others) ==
  [k \in Key |-> CASE k = "fs.write" -> write [] k \in {"browser", "shell"} -> others
                   [] OTHER -> Unset]
SilentConfig == {Table(Unset, Unset)}
GenerousOrStrict == {Table(Unset, "always"), Table("deny", Unset)}

ShellDenied == [k \in PolicyKey |-> IF k = "shell" THEN "deny" ELSE "ask"]
=============================================================================
