------------------------- MODULE MCControlledExtract -------------------------
(***************************************************************************)
(* Instances of ControlledExtract for TLC: a complete environment, and all *)
(* that differ from it in a few settings, as exported variables, as the    *)
(* contents of ml/.env and as the mapping of a caller.                     *)
(***************************************************************************)
EXTENDS ControlledExtract

Texts(key) ==
  CASE key \in Numbers \cup {"port"} -> Values \ {"set", "on"}
    [] key \in Flags -> {"absent", "empty", "on", "junk"}
    [] key \in Paths \cup {"base_url", "credentials"} ->
         {"absent", "empty", "blank", "set", "junk"}
    [] OTHER -> {"absent", "empty", "blank", "set"}

Complete ==
  [key \in Keys |-> CASE key \in Flags -> "on"
                      [] key \in Numbers \cup {"port"} -> "positive"
                      [] key = "dsn" -> "absent"
                      [] OTHER -> "set"]

Nothing == [key \in Keys |-> "absent"]

Variants(e) == UNION {{[e EXCEPT ![key] = v] : v \in Texts(key)} : key \in Keys}

ExportedOnes == Variants(Complete) \cup Variants(Nothing)
DotenvOnes == Variants(Complete) \cup {Nothing}
HostOnes == {[Nothing EXCEPT !.secret = v] : v \in Texts("secret")}
MappingOnes == UNION {Variants(e) : e \in Variants(Complete)}
CalledWith == [transport : Transports, repository : Repositories, service : Services]
=============================================================================
