---------------------------- MODULE AuthMachine ----------------------------
(* The sign-in state machine of sdk-core: a pure reducer over snapshots that  *)
(* the React Native provider drives.  Errors and challenges are left out.     *)
CONSTANT NoUser

MachineStates == {"idle", "authenticating", "awaiting_mfa", "authenticated",
                  "refreshing", "offline_stale", "error"}

Snapshot(state, user, session) == [state |-> state, user |-> user, session |-> session]

InitialSnapshot == Snapshot("idle", NoUser, NoUser)

(* user and session name the account the action carries. *)
Reduce(m, action, user) ==
    CASE action \in {"RESTORE_SUCCESS", "SIGN_IN_SUCCESS", "MFA_VERIFIED"} ->
           Snapshot("authenticated", user, user)
      [] action \in {"INIT", "RESTORE_FAILED", "REFRESH_REVOKED", "SIGN_OUT"} -> InitialSnapshot
      [] action = "SIGN_IN_START" -> [m EXCEPT !.state = "authenticating"]
      [] action = "MFA_REQUIRED" -> [m EXCEPT !.state = "awaiting_mfa"]
      [] action = "SIGN_IN_FAILED" -> Snapshot("error", NoUser, NoUser)
      [] action = "REFRESH_START" ->
           IF m.state \in {"authenticated", "offline_stale"}
             THEN [m EXCEPT !.state = "refreshing"] ELSE m
      [] action = "REFRESH_SUCCESS" -> [m EXCEPT !.state = "authenticated", !.session = user]
      [] action = "REFRESH_NETWORK_ERROR" -> [m EXCEPT !.state = "authenticated"]
      [] action = "OFFLINE_STALE" ->
           IF m.state \in {"authenticated", "refreshing"}
             THEN [m EXCEPT !.state = "offline_stale"] ELSE m
      [] action = "BACK_ONLINE" ->
           IF m.state = "offline_stale" THEN [m EXCEPT !.state = "authenticated"] ELSE m

IsSignedIn(m) == m.state \in {"authenticated", "refreshing", "offline_stale"}
=============================================================================
