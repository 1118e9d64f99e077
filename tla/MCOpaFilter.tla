---------------------------- MODULE MCOpaFilter ----------------------------
(* OpaFilter for TLC: payloads that differ in the path alone, and one with   *)
(* the same strings as another in other fields; configurations that are      *)
(* accepted, with and without a validity, and one refused halfway.           *)
EXTENDS OpaFilter

CONSTANT Paths      \* std::hash of the request paths

MCPayload ==
    {[source_principal |-> 1, destination_workload |-> 2, request_method |-> 3,
      request_url_path |-> path] : path \in Paths}
    \cup {[source_principal |-> 2, destination_workload |-> 1, request_method |-> 3,
           request_url_path |-> 2]}

Opa == ("opa_service_host" :> JsonString("opa")) @@ ("opa_cluster_name" :> JsonString("opa"))
ValidSecIs(j) == "check_result_cache_valid_sec" :> j

MCConfig ==
    {JsonObject(Opa @@ ValidSecIs(JsonNumeral(1))),
     JsonObject(Opa),
     JsonObject("opa_cluster_name" :> JsonString("new") @@ Opa @@ ValidSecIs(JsonString("one")))}

Streams == Permutations(Stream)
=============================================================================
