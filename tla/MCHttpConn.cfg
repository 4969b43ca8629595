\* 2 clients one after the other and 2 requests in all, in segments of any size
SPECIFICATION Spec
CONSTANTS
    Zero = Zero
    Get = Get
    Post = Post
    KeepAlive = KeepAlive
    FormType = FormType
    Form = Form
    CR = CR
    LF = LF
    Requests <- MCRequests
    Size = {0, 2, 8, 17}
    IntLimit = 8
    MaxClients = 2
    MaxRequests = 2
    InitSize = 5
    LTRest = 1
INVARIANTS
    TypeOK
    BytesKept
    WireIsAnswer
    LengthDeclared
    MappingExact
    UnaskedAtMostOne
PROPERTY
    TaskEnds
