------------------------------ MODULE HostInfo ------------------------------
(***************************************************************************)
(* What the exporter reads from the host it runs on: the files of /proc    *)
(* (host_sysinfo_provider.go, host_sysinfo_utils.go) and the statistics    *)
(* made of them (sp_host_systeminfo.go).  A host is a record of those      *)
(* files; a file that cannot be read has nothing in it.                    *)
(*                                                                         *)
(* A number of a file is the sequence of its hexadecimal digits where its  *)
(* bits matter, which is in the keys of shared memory; elsewhere only      *)
(* whether it can be parsed is kept.                                       *)
(***************************************************************************)
EXTENDS Naturals, Sequences, SequencesExt

HexDigits == {"0", "1", "2", "3", "4", "5", "6", "7",
              "8", "9", "a", "b", "c", "d", "e", "f"}

HostContexts == {"sysinfo_memory_stats", "sysinfo_netstat", "sysinfo_network",
                 "sysinfo_filefd"}

\* The other fields of Stat (MetricCatalog) are empty; line tells apart what
\* the labels should.
HostStat(context, line, metric, labels) ==
  [context |-> context, level |-> "", key |-> line, device |-> <<>>, type |-> "",
   index |-> "", metric |-> metric, ns |-> "", dc |-> "", subject |-> "", item |-> labels]

-----------------------------------------------------------------------------
(* Shared memory: /proc/sysvipc/shm. *)

\* The kernel writes a key of 32 bits as a signed number; ParseInt reads it
\* into 64, and uint64 keeps the bits.
ParseKey(key) ==
  [i \in 1 .. 8 |-> IF Head(key) \in {"0", "1", "2", "3", "4", "5", "6", "7"} THEN "0" ELSE "f"]
    \o key

\* The bits 24 to 31, 20 to 23 and 12 to 19; the lowest twelve, the suffix,
\* are no label.
Prefix(u)      == SubSeq(u, 9, 10)
InstanceID(u)  == SubSeq(u, 11, 11)
NamespaceID(u) == SubSeq(u, 12, 13)

\* %08x: leading zeros, but no more than fill eight digits.
HexKey(u) ==
  LET first == CHOOSE i \in 1 .. 9 :
                 /\ i = 9 \/ u[i] # "0"
                 /\ \A j \in 1 .. i - 1 : u[j] = "0"
  IN  SubSeq(u, first, 16)

TypeID(u) ==
  CASE Prefix(u) = <<"a", "e">> -> "pi"
    [] Prefix(u) = <<"a", "2">> -> "si"
    [] Prefix(u) = <<"a", "d">> -> "data"
    [] OTHER -> "other"

IsAerospikeShmSegment(u) == TypeID(u) # "other"

\* parseSysVSharedMemInfo, decodeAerospikeShmKey, as the labels of a segment
SegmentLabels(line) ==
  LET u == ParseKey(line.key)
  IN  <<HexKey(u), NamespaceID(u), InstanceID(u), Prefix(u), TypeID(u), line.cpid, line.lpid>>

\* The first line, every header and every blank are skipped, and so are lines
\* with a field that is no number.  A segment has its sixteen fields, as the
\* kernel writes them: the code indexes them without looking.
GetSharedMemoryStats(lines) ==
  {<<i, SegmentLabels(lines[i])>> :
     i \in {j \in DOMAIN lines \ {1} : /\ lines[j].kind = "segment"
                                       /\ IsAerospikeShmSegment(ParseKey(lines[j].key))
                                       /\ lines[j].sound}}

-----------------------------------------------------------------------------
(* The other files. *)

\* acceptNetstat: of "protocol_name"
AcceptedNames == {"activeopens", "retranssegs", "currestab"}

\* parseNetStats: pairs of lines, up to the first whose lengths differ.
GetNetStatInfo(pairs) ==
  LET uneven == {i \in DOMAIN pairs : Len(pairs[i].names) # Len(pairs[i].values)}
      read   == {i \in DOMAIN pairs : \A j \in uneven : i < j}
      Kept(i) == {k \in DOMAIN pairs[i].names : /\ pairs[i].names[k] \in AcceptedNames
                                                /\ pairs[i].values[k] = "number"}
  IN  UNION {{<<"tcp", "_", pairs[i].names[k]>> : k \in Kept(i)} :
               i \in {j \in read : pairs[j].protocol = "tcp"}}

\* RefreshSystemInfo: five files, one after the other.
RefreshSystemInfo(host) ==
  IF ~host.refresh THEN {}
  ELSE {HostStat("sysinfo_filefd", 1, <<"allocated">>, <<>>) : fd \in host.fileNr}
       \cup {HostStat("sysinfo_memory_stats", 1, <<name, "_", "bytes">>, <<>>) :
               name \in host.meminfo}
       \cup {HostStat("sysinfo_netstat", 1, name, <<>>) : name \in GetNetStatInfo(host.snmp)}
       \cup {HostStat("sysinfo_network", 1, <<way, "_", "bytes", "_", "total">>, <<device>>) :
               way \in {"receive", "transfer"}, device \in host.devices}
       \cup {HostStat("sysinfo_memory_stats", segment[1], <<"shared_memory", "_", what>>, segment[2]) :
               what \in {"size", "rss"}, segment \in GetSharedMemoryStats(host.shm)}

=============================================================================
