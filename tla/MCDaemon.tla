------------------------------- MODULE MCDaemon -------------------------------
(* Requests for TLC, and the executions as interchangeable values.           *)
EXTENDS Daemon, TLC

CONSTANT MCRpcs   \* the calls considered

MCArgs == {"a", "b"}
MCIfaces == {"veth0", "eth0", "lo", "host"}

Request(rpc, iface, dir, args) ==
  [rpc |-> rpc, iface |-> iface, dir |-> dir, args |-> args]

\* Pod-scoped requests on one veth, host-scoped ones, partitions of one pod that
\* overlap in one direction, and a list of domains that repeats one.
AllRequests ==
  {Request(rpc, "veth0", "both", <<"a">>) :
     rpc \in {"netem", "ebpf", "partition", "http-abort", "http-delay", "stress",
              "node-stress", "node-partition"}}
  \cup {Request("partition", "veth0", "egress", <<"a">>),
        Request("partition", "veth0", "ingress", <<"b">>),
        Request("dns", "veth0", "both", <<"a", "a">>),
        Request("dns", "", "both", <<"b">>),
        Request("http-delay", "", "both", <<"a">>),
        Request("node-partition", "", "both", <<>>)}

MCRequests == {req \in AllRequests : req.rpc \in MCRpcs}

IdSymmetry == Permutations(Ids)
=============================================================================
