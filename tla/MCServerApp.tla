---------------------------- MODULE MCServerApp ----------------------------
(* A server that reads its secrets from OpenBao, by a fetch without a       *)
(* timeout, and has a health check, a gRPC driver that drains and a cron    *)
(* driver that does not.                                                    *)
EXTENDS ServerApp

CONSTANTS secrets, health, grpc, cron

BothPlugins == {secrets, health}
BothDrivers == {grpc, cron}
GrpcDrains == {grpc}
AllButSecrets == {health, grpc, cron}

=============================================================================
