---------------------------- MODULE MCPerfBuffer ----------------------------
EXTENDS PerfBuffer

MCCpus == 0 .. 3

Request(pages, possible, online, entries, info, cpus, keys) ==
    [page_cnt |-> pages, possible |-> possible, online |-> online,
     max_entries |-> entries, info |-> info, cpus |-> cpus, map_keys |-> keys]

\* Every way to refuse a call; CPUs offline before, between and after those
\* that are online; possible CPUs with a gap; a map with fewer slots; the raw
\* variant with keys of its own.
MCCalls ==
    { Request(pages, <<<<0, 3>>>>, <<<<1, 1>>>>, 4, info, <<>>, <<>>) :
        pages \in {0, 6, 8}, info \in {"ok", "wrong_type", "EINVAL", "error"} }
    \cup { Request(4, <<<<0, 3>>>>, <<<<0, 0>>, <<2, 2>>>>, 4, "ok", <<>>, <<>>),
           Request(4, <<<<0, 1>>, <<3, 3>>>>, <<<<1, 1>>, <<3, 3>>>>, 4, "ok", <<>>, <<>>),
           Request(4, <<<<0, 3>>>>, <<<<0, 3>>>>, 1, "ok", <<>>, <<>>),
           Request(0, <<<<0, 3>>>>, <<<<0, 3>>>>, 4, "ok", <<2, 0>>, <<3, 2>>) }

MCSizes == {1, 3}

=============================================================================
