---------------------------- MODULE MCSmokeLane -----------------------------
(* A manifest of three commands: one of which only the exit code counts,   *)
(* one compared whole and one searched.                                    *)
EXTENDS SmokeLane

Command(id, mode, expect) == [id |-> id, expect_rc |-> 0, mode |-> mode, expect |-> expect]
MCCommands ==
  <<Command("nproc", "none", ""), Command("uname_m", "equals", "aarch64"),
    Command("echo_token", "contains", "token")>>

MCIds == {"nproc", "uname_m", "echo_token"}

(* The token is within the argv of the command that echoes it. *)
MCCarries == [t \in {"blank", "aarch64", "token", "banner", "sentinel"} \cup MCIds |->
                CASE t = "banner" -> {"aarch64", "token"}
                  [] t = "echo_token" -> {"token"}
                  [] t \in {"aarch64", "token"} -> {t}
                  [] OTHER -> {}]

Text(t) == Out(t, Junk, FALSE)
Blank == Text("blank")
Within(t, inner) == Out(t, inner, FALSE)
Whole(sentinel) == Out("sentinel", sentinel, TRUE)
Does(rc, first, second) == [rc |-> rc, out |-> <<first, second>>]

(* Right, a wrong exit code, the right text twice; a sentinel of the same  *)
(* or another command within a line and as a whole line.                   *)
MCOutcomes ==
  [id \in MCIds |->
     CASE id = "nproc" ->
            {Does(127, Within("banner", CmdEnd("nproc", 0)), Blank),
             Does(127, Text("banner"), Whole(CmdEnd("nproc", 0))),
             Does(0, Whole(CmdBegin("uname_m")), Whole(CmdEnd("echo_token", 1)))}
       [] id = "uname_m" ->
            {Does(0, Text("aarch64"), Blank), Does(0, Text("aarch64"), Text("aarch64"))}
       [] id = "echo_token" ->
            {Does(0, Within("sentinel", CmdEnd("echo_token", 1)), Within("token", Marker)),
             Does(0, Within("banner", CmdBegin("nproc")), Whole(MEnd)),
             Does(0, Text("token"), Whole(CmdEnd("echo_token", 1)))}]

MCDeathCodes == {134, 137}
=============================================================================
