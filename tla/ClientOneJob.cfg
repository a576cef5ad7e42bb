CONSTANTS
    j1 = j1
    Jobs = {j1}
    Platforms = {"web", "android", "flutter", "ios"}
    MaxRetries = 3
    MaxInits = 3
    MaxRestarts = 2

SPECIFICATION Spec

PROPERTIES
    ToldOnce
    CallbackComes
