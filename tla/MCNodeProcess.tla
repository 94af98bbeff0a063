--------------------------- MODULE MCNodeProcess ---------------------------
(***************************************************************************)
(* A node on one base directory for TLC, configured as a producer, and the *)
(* backup configurations with at most two settings changed from a complete *)
(* one.                                                                    *)
(***************************************************************************)
EXTENDS NodeProcess

Values(f) ==
    CASE f \in {"workspace", "localDir", "knownHosts", "observerConfig"} -> References
      [] f \in {"remoteDir", "publishDir"} -> RemotePaths
      [] f \in {"secret", "passphrase"} -> Secrets
      [] f = "auth" -> {"password-file", "private-key", "env-password", "other"}
      [] OTHER -> BOOLEAN

OneChanged(c) == UNION {{[c EXCEPT ![f] = v] : v \in Values(f)} : f \in DOMAIN c}

MCConfigs == UNION {OneChanged(c) : c \in OneChanged(Complete)}
=============================================================================
