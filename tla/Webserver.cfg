SPECIFICATION Spec
CONSTANTS
    Records = {r1, r2}
    AppHandlers = {"static_file", "static_object", "websocket"}
INVARIANTS AcceptsOnlyWhenReady RecordLivesWithHandle AnsweredOnce
